---- MODULE Spec2Model ----
(***************************************************************************)
(* Electionserver: tenant partition router (lib/voterDatabases.js), the    *)
(* per-collection model cache (models/Voter.js) and the sync endpoints     *)
(* (routes/voters.sync.js).                                                *)
(*                                                                         *)
(* A JavaScript string is a sequence of one-character strings, so that     *)
(* trim, startsWith and includes are computed, not assumed.  "NUL" stands  *)
(* for the character \0.  A JavaScript value that may or may not be a      *)
(* string is a record [str |-> BOOLEAN, s |-> sequence].                   *)
(***************************************************************************)
EXTENDS Integers, Sequences, FiniteSets, TLC

VARIABLES
  env,          \* process.env: [VOTER_COLLECTION, DEFAULT_VOTER_COLLECTION]
  readyState,   \* mongoose.connection.readyState (0 = disconnected)
  modelCache,   \* Voter.js modelCache: set of [key, model]
  dbModels,     \* db.models: set of [name, collection]
  rq,           \* the request given to resolveVoterModelForRequest
  rres,         \* what resolveVoterModelForRequest answered
  rpc,          \* "start" before the call, "done" after it
  colls,        \* the collections of the voter database: name -> [exists, docs]
  now,          \* the server clock (Date.now())
  pc,           \* per request handler: "idle", "next" (loop head), "found"
  cur,          \* per request handler: the locals of the running handler
  resp,         \* per request handler: the last response written
  script,       \* the requests a scripted client still has to send
  ex,           \* the GET /export handler: position, locals, answer
  pull,         \* a client that pulls a collection page by page
  cl,           \* cloneVoterCollection as POST /users calls it: position, locals
  rt,           \* a second call of cloneVoterCollection, made while the first runs
  dr,           \* dropVoterCollection as DELETE /users/:id calls it
  users,        \* the users collection: id -> [present, username, role, ...]
  adm           \* the handler of an /api/admin/users request: position, locals

vars == <<env, readyState, modelCache, dbModels, rq, rres, rpc,
          colls, now, pc, cur, resp, script, ex, pull, cl, rt, dr, users, adm>>

rvars == <<rq, rres, rpc>>
svars == <<colls, now, pc, cur, resp, script>>
xvars == <<ex, pull>>
cvars == <<cl>>
avars == <<rt, dr, users, adm>>

\* ------------------------------------------------------------ strings --

NUL == "NUL"
Str(s) == [str |-> TRUE, s |-> s]
NotAString == [str |-> FALSE, s |-> <<>>]

IsSpace(c) == c = " "

RECURSIVE trimStart(_)
trimStart(s) ==
  IF s # <<>> /\ IsSpace(Head(s)) THEN trimStart(Tail(s)) ELSE s

RECURSIVE trimEnd(_)
trimEnd(s) ==
  IF s # <<>> /\ IsSpace(s[Len(s)]) THEN trimEnd(SubSeq(s, 1, Len(s) - 1)) ELSE s

trim(s) == trimEnd(trimStart(s))

startsWith(s, prefix) ==
  /\ Len(s) >= Len(prefix)
  /\ SubSeq(s, 1, Len(prefix)) = prefix

includes(s, c) == \E i \in 1..Len(s) : s[i] = c

SystemPrefix == <<"s", "y", "s", "t", "e", "m", ".">>

\* ------------------------------------------- lib/voterDatabases.js --

sanitizeDatabaseId_NoPrefixCheck(id) ==
  LET value == IF id.str THEN trim(id.s) ELSE <<>>
  IN  IF value = <<>> THEN <<>>
      ELSE IF includes(value, NUL) THEN <<>>
      ELSE value

sanitizeDatabaseId(id) ==
  LET value == IF id.str THEN trim(id.s) ELSE <<>>
  IN  IF value = <<>> THEN <<>>
      ELSE IF startsWith(value, SystemPrefix) THEN <<>>
      ELSE IF includes(value, NUL) THEN <<>>
      ELSE value

\* The six places a request may carry the selection, in the order tried.
candidates(req) ==
  << req.paramsDatabaseId, req.queryDatabaseId, req.queryDatabase,
     req.queryCollection, req.bodyDatabaseId, req.bodyCollection >>

extractDatabaseId(req) ==
  LET c    == candidates(req)
      good == { i \in 1..Len(c) : sanitizeDatabaseId(c[i]) # <<>> }
  IN  IF good = {} THEN <<>>
      ELSE sanitizeDatabaseId(c[CHOOSE i \in good : \A j \in good : i <= j])

NonEmpty(s) == s # <<>>

getAllowedDatabasesFromUser(user) ==
  IF ~user.allowedDatabaseIds.arr THEN <<>>
  ELSE LET ids == user.allowedDatabaseIds.items
       IN  SelectSeq([i \in 1..Len(ids) |-> sanitizeDatabaseId(ids[i])], NonEmpty)

\* ------------------------------------------------- models/Voter.js --

Voters == <<"v", "o", "t", "e", "r", "s">>

\* DEFAULT_COLLECTION: a || b || 'voters' (an unset variable and '' are both falsy)
getDefaultVoterCollection_NoFallback(e) ==
  IF e.VOTER_COLLECTION # <<>> THEN e.VOTER_COLLECTION
  ELSE e.DEFAULT_VOTER_COLLECTION

getDefaultVoterCollection(e) ==
  IF e.VOTER_COLLECTION # <<>> THEN e.VOTER_COLLECTION
  ELSE IF e.DEFAULT_VOTER_COLLECTION # <<>> THEN e.DEFAULT_VOTER_COLLECTION
  ELSE Voters

\* getTargetDbName: one logical database per process
DbName == "voter_search"

AlnumChars ==
  { "A", "B", "C", "D", "a", "b", "e", "m", "o", "r", "s", "t", "u", "v",
    "x", "y", "0", "1", "2" }

IsAlnum(c) == c \in AlnumChars

RECURSIVE dropNonAlnum(_)
dropNonAlnum(s) ==
  IF s # <<>> /\ ~IsAlnum(Head(s)) THEN dropNonAlnum(Tail(s)) ELSE s

\* .replace(/[^A-Za-z0-9]+/g, '_')
RECURSIVE replaceNonAlnumRuns(_)
replaceNonAlnumRuns(s) ==
  IF s = <<>> THEN <<>>
  ELSE IF IsAlnum(Head(s)) THEN <<Head(s)>> \o replaceNonAlnumRuns(Tail(s))
  ELSE <<"_">> \o replaceNonAlnumRuns(dropNonAlnum(s))

\* .replace(/^_+|_+$/g, '')
RECURSIVE stripUnderscores(_)
stripUnderscores(s) ==
  IF s # <<>> /\ Head(s) = "_" THEN stripUnderscores(Tail(s))
  ELSE IF s # <<>> /\ s[Len(s)] = "_" THEN stripUnderscores(SubSeq(s, 1, Len(s) - 1))
  ELSE s

makeModelName(collectionName) ==
  LET safe == stripUnderscores(replaceNonAlnumRuns(trim(collectionName)))
  IN  <<"Voter_">> \o (IF safe = <<>> THEN <<"Default">> ELSE safe)

CacheKey(requested) == <<DbName, requested>>

\* getVoterModel without the check of connection.readyState at lines 61-64
getVoterModel_NoReadyCheck(collectionName, ready, cache, models) ==
  LET requested == trim(collectionName)
      model     == [name |-> makeModelName(requested), collection |-> requested]
  IN  [threw |-> FALSE, model |-> model,
       modelCache |-> cache \cup {[key |-> CacheKey(requested), model |-> model]},
       dbModels |-> models \cup {model}]

\* getVoterModel(collectionName) with the module state it reads and writes.
\* A model (the handle) is [name, collection]: the collection it reads and writes.
\* a variant that drops the cached entries of other keys on a miss
getVoterModel_Evicting(collectionName, ready, cache, models) ==
  LET requested == trim(collectionName)
      cacheKey  == CacheKey(requested)
      hit       == { c \in cache : c.key = cacheKey }
      model     == [name |-> makeModelName(requested), collection |-> requested]
  IN  IF requested = <<>> \/ ready = 0
        THEN [threw |-> TRUE, model |-> [name |-> <<>>, collection |-> <<>>],
              modelCache |-> cache, dbModels |-> models]
      ELSE IF hit # {}
        THEN [threw |-> FALSE, model |-> (CHOOSE c \in hit : TRUE).model,
              modelCache |-> cache, dbModels |-> models]
      ELSE [threw |-> FALSE, model |-> model,
            modelCache |-> {[key |-> cacheKey, model |-> model]},
            dbModels |-> models \cup {model}]

getVoterModel(collectionName, ready, cache, models) ==
  LET requested == trim(collectionName)
      cacheKey  == CacheKey(requested)
      hit       == { c \in cache : c.key = cacheKey }
      modelName == makeModelName(requested)
      existing  == { m \in models : m.name = modelName }
      model     == IF existing # {} THEN CHOOSE m \in existing : TRUE
                   ELSE [name |-> modelName, collection |-> requested]
  IN  IF requested = <<>> \/ ready = 0
        THEN [threw |-> TRUE, model |-> [name |-> <<>>, collection |-> <<>>],
              modelCache |-> cache, dbModels |-> models]
      ELSE IF hit # {}
        THEN [threw |-> FALSE, model |-> (CHOOSE c \in hit : TRUE).model,
              modelCache |-> cache, dbModels |-> models]
      ELSE [threw |-> FALSE, model |-> model,
            modelCache |-> cache \cup {[key |-> cacheKey, model |-> model]},
            dbModels |-> models \cup {model}]

\* ------------------------------ resolveVoterModelForRequest, by step --

includesId(allowed, requested) == \E i \in 1..Len(allowed) : allowed[i] = requested

\* lines 43-47: nothing selected, and more than one permitted or the caller
\* insists on an explicit selection
mustChoose_IgnoreRequireExplicit(requested, allowed, requireExplicitSelection) ==
  requested = <<>> /\ Len(allowed) > 1

mustChoose_AlsoSingle(requested, allowed, requireExplicitSelection) ==
  requested = <<>> /\ (Len(allowed) >= 1 \/ requireExplicitSelection)

mustChoose_OnlyWhenRequired(requested, allowed, requireExplicitSelection) ==
  requested = <<>> /\ requireExplicitSelection

mustChoose(requested, allowed, requireExplicitSelection) ==
  requested = <<>> /\ (Len(allowed) > 1 \/ requireExplicitSelection)

\* lines 48-50: the sole permitted partition
solePermitted_PreferAllowed(requested, allowed) ==
  IF Len(allowed) = 1 THEN allowed[1] ELSE requested

solePermitted(requested, allowed) ==
  IF requested = <<>> /\ Len(allowed) = 1 THEN allowed[1] ELSE requested

\* lines 53-55: the configured default
orDefault(requested, e) ==
  IF requested = <<>> THEN sanitizeDatabaseId(Str(getDefaultVoterCollection(e)))
  ELSE requested

\* line 62
isForbidden_Never(allowed, requested, isAdmin) == FALSE

isForbidden_EmptyDenies(allowed, requested, isAdmin) ==
  ~includesId(allowed, requested) /\ ~isAdmin

isForbidden(allowed, requested, isAdmin) ==
  Len(allowed) # 0 /\ ~includesId(allowed, requested) /\ ~isAdmin

NoModel == [name |-> <<>>, collection |-> <<>>]

MsgChoose == "Please choose a voter database (databaseId)."
MsgRequired == "databaseId is required."
MsgForbidden == "You do not have access to this voter database."
MsgUnavailable == "Unable to open the selected voter database."

Failure(status, error, candidate, cache, models) ==
  [status |-> status, error |-> error, candidate |-> candidate,
   model |-> NoModel, databaseId |-> <<>>,
   modelCache |-> cache, dbModels |-> models]

\* resolveVoterModelForRequest(req, res, options): the response written to res
\* (status 200 stands for "no response written, ctx returned"), the ctx, and
\* the module state of models/Voter.js after the call.
resolveVoterModelForRequest(req, requireExplicitSelection, e, ready, cache, models) ==
  LET allowed    == getAllowedDatabasesFromUser(req.user)
      isAdmin    == req.user.role = "admin"
      requested0 == sanitizeDatabaseId(Str(extractDatabaseId(req)))
      requested1 == solePermitted(requested0, allowed)
      requested  == orDefault(requested1, e)
      got        == getVoterModel(requested, ready, cache, models)
  IN  IF mustChoose(requested0, allowed, requireExplicitSelection)
        THEN Failure(400, MsgChoose, <<>>, cache, models)
      ELSE IF requested = <<>>
        THEN Failure(400, MsgRequired, <<>>, cache, models)
      ELSE IF isForbidden(allowed, requested, isAdmin)
        THEN Failure(403, MsgForbidden, requested, cache, models)
      ELSE IF got.threw
        THEN Failure(500, MsgUnavailable, requested, cache, models)
      ELSE [status |-> 200, error |-> "", candidate |-> requested,
            model |-> got.model, databaseId |-> requested,
            modelCache |-> got.modelCache, dbModels |-> got.dbModels]

\* ------------------------------------ documents of a voter collection --

\* BaseVoterSchema declares no _id, so _id is an ObjectId: findById and create
\* cast the identifier and reject (CastError) one that is no ObjectId.
\* ... in ascending order
IdOrder == << "id1", "id2", "id3" >>

ObjectIds == { IdOrder[i] : i \in DOMAIN IdOrder }

IsObjectId(id) == id \in ObjectIds

\* A stored document: two of the schema's String paths and the updatedAt that
\* `timestamps: true` maintains.  "-" is a path that is not set; updatedAt 0 is
\* a document without the path (read as `doc.updatedAt || 0`).
Unset == "-"
NoDoc == [present |-> FALSE, mobile |-> Unset, name |-> Unset, updatedAt |-> 0]
EmptyDocs == [id \in ObjectIds |-> NoDoc]

\* A change's updatedAt as the client sent it: missing, a date, or no date.
NoTime == [k |-> "none", t |-> 0]
BadTime == [k |-> "bad", t |-> 0]
At(t) == [k |-> "date", t |-> t]

\* new Date(x || 0).getTime(): 0 for a missing value, NaN for one that is no date
NaN == 0 - 1
getTime(x) == IF x.k = "none" THEN 0 ELSE IF x.k = "bad" THEN NaN ELSE x.t

\* Object.assign(doc, payload || {}): a key the payload lacks is "-"
assign(doc, payload) ==
  [doc EXCEPT !.mobile = IF payload.mobile # Unset THEN payload.mobile ELSE @,
              !.name = IF payload.name # Unset THEN payload.name ELSE @]

\* lines 66-68: does the incoming change win?
incomingWins_Strict(updatedAt, doc) ==
  LET remoteTime == doc.updatedAt
      localTime  == getTime(updatedAt)
  IN  localTime # NaN /\ localTime > remoteTime

incomingWins(updatedAt, doc) ==
  LET remoteTime == doc.updatedAt
      localTime  == getTime(updatedAt)
  IN  localTime # NaN /\ localTime >= remoteTime

\* a variant of save that writes the whole document held by the handler
save_Whole(stored, snapshot, edited, clock) ==
  IF edited = snapshot THEN stored
  ELSE [edited EXCEPT !.updatedAt = clock]

\* doc.save() of a document loaded as `snapshot` and changed to `edited`:
\* nothing is sent when no path is modified; else the modified paths are
\* $set on the stored document and the timestamps hook sets updatedAt to the
\* server's clock.
save(stored, snapshot, edited, clock) ==
  IF edited = snapshot THEN stored
  ELSE [stored EXCEPT
          !.mobile = IF edited.mobile # snapshot.mobile THEN edited.mobile ELSE @,
          !.name = IF edited.name # snapshot.name THEN edited.name ELSE @,
          !.updatedAt = clock]

\* VoterModel.create({ _id, ...payload }): createdAt = updatedAt = the clock
create_Empty(payload, clock) ==
  [present |-> TRUE, mobile |-> Unset, name |-> Unset, updatedAt |-> clock]

create(payload, clock) ==
  [present |-> TRUE, mobile |-> payload.mobile, name |-> payload.name,
   updatedAt |-> clock]

\* line 58
badChange_IdOnly(ch) == ~(ch._id # "")

badChange(ch) == ~(ch._id # "" /\ ch.op = "upsert")

Payload(mobile, name) == [mobile |-> mobile, name |-> name]

\* an element of `changes` that is an object (`nul` marks the element null)
Change(id, op, payload, updatedAt) ==
  [nul |-> FALSE, _id |-> id, op |-> op, payload |-> payload, updatedAt |-> updatedAt]

NoChange == Change("", "", Payload(Unset, Unset), NoTime)

\* the element null: `const { _id, ... } = ch` and `ch._id` throw a TypeError
NullChange == [NoChange EXCEPT !.nul = TRUE]

IsNull(ch) == ch.nul

\* -------------------------------- routes/voters.sync.js: GET /export --

\* a JavaScript number that may be NaN
Num(v) == [nan |-> FALSE, v |-> v]
NotANumber == [nan |-> TRUE, v |-> 0]

MathMax(a, b) == IF a.nan \/ b.nan THEN NotANumber ELSE Num(IF a.v >= b.v THEN a.v ELSE b.v)
MathMin(a, b) == IF a.nan \/ b.nan THEN NotANumber ELSE Num(IF a.v <= b.v THEN a.v ELSE b.v)
Minus(a, b) == IF a.nan \/ b.nan THEN NotANumber ELSE Num(a.v - b.v)
Times(a, b) == IF a.nan \/ b.nan THEN NotANumber ELSE Num(a.v * b.v)

Digits == << "0", "1", "2", "3", "4", "5", "6", "7", "8", "9" >>
IsDigit(c) == \E i \in DOMAIN Digits : Digits[i] = c
DigitValue(c) == (CHOOSE i \in DOMAIN Digits : Digits[i] = c) - 1

RECURSIVE leadingDigits(_)
leadingDigits(s) ==
  IF s = <<>> \/ ~IsDigit(s[1]) THEN <<>> ELSE <<s[1]>> \o leadingDigits(Tail(s))

RECURSIVE digitsValue(_)
digitsValue(s) ==
  IF s = <<>> THEN 0
  ELSE 10 * digitsValue(SubSeq(s, 1, Len(s) - 1)) + DigitValue(s[Len(s)])

parseInt(str) ==
  LET t      == trimStart(str)
      signed == t # <<>> /\ t[1] \in {"-", "+"}
      ds     == leadingDigits(IF signed THEN Tail(t) ELSE t)
  IN  IF ds = <<>> THEN NotANumber
      ELSE Num(IF signed /\ t[1] = "-" THEN 0 - digitsValue(ds) ELSE digitsValue(ds))

\* q || dflt for a query parameter q (a string, or missing)
orElse(q, dflt) == IF q.str /\ q.s # <<>> THEN q.s ELSE dflt

MaxLimit == 20000
DefaultLimit == << "5", "0", "0", "0" >>
DefaultPage == << "1" >>

\* line 17
pageOf(query) == MathMax(parseInt(orElse(query.page, DefaultPage)), Num(1))

limitOf(query) ==
  MathMin(MathMax(parseInt(orElse(query.limit, DefaultLimit)), Num(1)), Num(MaxLimit))

\* line 19
skipOf(page, limit) == Times(Minus(page, Num(1)), limit)

\* lines 21-22: the filter { updatedAt: { $gt: since } }, or {} without since;
\* a document without updatedAt (0) matches no $gt
matches_OrEqual(doc, since) ==
  doc.present /\ (since.k = "none" \/ doc.updatedAt >= since.t)

matches(doc, since) ==
  doc.present /\ (since.k = "none" \/ doc.updatedAt > since.t)

\* .lean(): the plain object of a document
Item(id, doc) ==
  [_id |-> id, mobile |-> doc.mobile, name |-> doc.name, updatedAt |-> doc.updatedAt]

\* line 25: find(filter).sort({ _id: 1 }).skip(skip).limit(limit).lean()
\* (limit 0 is no limit)
find_NoSkip(docs, since, skip, limit) ==
  LET ids  == SelectSeq(IdOrder, LAMBDA id : matches(docs[id], since))
      last == IF limit = 0 \/ limit > Len(ids) THEN Len(ids) ELSE limit
  IN  [i \in 1..last |-> Item(ids[i], docs[ids[i]])]

find(docs, since, skip, limit) ==
  LET ids  == SelectSeq(IdOrder, LAMBDA id : matches(docs[id], since))
      last == IF limit = 0 \/ skip + limit > Len(ids) THEN Len(ids) ELSE skip + limit
  IN  IF skip >= Len(ids) THEN <<>>
      ELSE [i \in 1..(last - skip) |-> Item(ids[skip + i], docs[ids[skip + i]])]

\* line 26: countDocuments(filter)
countDocuments(docs, since) ==
  Cardinality({ id \in ObjectIds : matches(docs[id], since) })

\* line 29
hasMoreOf_Inclusive(skip, items, count) == skip + Len(items) <= count

hasMoreOf(skip, items, count) == skip + Len(items) < count

MsgExportFailed == "export_failed"

\* what GET /export answered
NoExport ==
  [status |-> 0, error |-> "", items |-> <<>>, hasMore |-> FALSE,
   serverTime |-> NoTime, page |-> Num(0), count |-> 0, databaseId |-> <<>>]

NoQuery == [page |-> NotAString, limit |-> NotAString, since |-> NoTime]

\* the export handler: its position, its locals and its answer
IdleEx ==
  [pc |-> "idle", query |-> NoQuery, model |-> NoModel, databaseId |-> <<>>,
   page |-> Num(0), limit |-> Num(0), skip |-> Num(0),
   items |-> <<>>, haveItems |-> FALSE, count |-> 0, haveCount |-> FALSE,
   res |-> NoExport]

\* a client's pull: the parameters it asks with, the page it is at, the
\* items it got in this pull, the records it holds, the serverTime of the
\* pull's first page, and the collection as it was when the pull ended
\* cloneVoterCollection(sourceCollectionName, targetCollectionName) at rest.
\* `temp` is the temporary collection that $out fills and `i` the position of
\* its cursor; `emptyOut` tells whether the server's $out of no documents
\* creates an empty collection; `calls` counts the calls made and
\* `clonedDbIds` is the list of admin.js
IdleClone ==
  [pc |-> "idle", source |-> <<>>, target |-> <<>>, targetExists |-> FALSE,
   temp |-> EmptyDocs, i |-> 0, result |-> "", calls |-> 0,
   clonedDbIds |-> <<>>, emptyOut |-> TRUE]

\* dropVoterCollection(collectionName) at rest: `exists` is what
\* listCollections gave, `result` how the call ended, `calls` counts the calls
IdleDrop ==
  [pc |-> "idle", name |-> <<>>, exists |-> FALSE, result |-> "", calls |-> 0]

UserIds == { <<"i", "1">>, <<"i", "2">> }

\* UserSchema (models/User.js): the fields the admin routes read and write
NoUserDoc ==
  [present |-> FALSE, username |-> <<>>, role |-> "user",
   allowedDatabaseIds |-> <<>>, parentUserId |-> <<>>]

NoUsers == [id \in UserIds |-> NoUserDoc]

\* an /api/admin/users handler at rest
IdleAdmin ==
  [pc |-> "idle", op |-> "", id |-> <<>>, safeKey |-> <<>>,
   requestedDbIds |-> <<>>, databases |-> {}, status |-> 0]

InitAdmin ==
  /\ rt = IdleClone
  /\ dr = IdleDrop
  /\ users = NoUsers
  /\ adm = IdleAdmin

NoPull ==
  [phase |-> "off", round |-> 0, since |-> NoTime, limit |-> NotAString,
   page |-> 0, got |-> <<>>, have |-> EmptyDocs, first |-> NoTime,
   truth |-> EmptyDocs]

\* ------------------------------------------------- bounded inputs --

MaxAllowed == 2     \* longest allowedDatabaseIds array tried

NameA == <<"A">>
NameB == <<"B">>
NameC == <<"C">>
NameD == <<"D">>
NameSys == SystemPrefix \o <<"x">>

\* values an allowedDatabaseIds entry may hold
AllowedRaw ==
  { Str(NameA), Str(NameB), Str(<<" ", "A", " ">>), Str(NameSys), Str(<<"A", NUL>>) }

\* values one of the six selection places may hold
SelectedRaw == { Str(NameB), Str(<<" ", "C">>), Str(NameSys), Str(<<NUL, "B">>) }

RECURSIVE SeqsUpTo(_, _)
SeqsUpTo(S, n) ==
  IF n = 0 THEN { <<>> }
  ELSE LET shorter == SeqsUpTo(S, n - 1)
       IN  shorter \cup { Append(s, x) : s \in { t \in shorter : Len(t) = n - 1 }, x \in S }

AllowedLists ==
  { [arr |-> FALSE, items |-> <<>>] }
    \cup { [arr |-> TRUE, items |-> s] : s \in SeqsUpTo(AllowedRaw, MaxAllowed) }

Roles == { "admin", "user" }

Users == [role : Roles, allowedDatabaseIds : AllowedLists]

Places == 1..6

MkReq(user, f) ==
  [user |-> user,
   paramsDatabaseId |-> f[1], queryDatabaseId |-> f[2], queryDatabase |-> f[3],
   queryCollection |-> f[4], bodyDatabaseId |-> f[5], bodyCollection |-> f[6]]

NoSelection == [i \in Places |-> NotAString]

\* nothing selected, one place filled, or two neighbouring places filled
Selections ==
  { NoSelection }
    \cup { [NoSelection EXCEPT ![i] = x] : i \in Places, x \in SelectedRaw }
    \cup { [NoSelection EXCEPT ![i] = x, ![i + 1] = y] :
             i \in 1..5, x \in SelectedRaw, y \in SelectedRaw }

Envs ==
  { [VOTER_COLLECTION |-> <<>>, DEFAULT_VOTER_COLLECTION |-> <<>>],
    [VOTER_COLLECTION |-> <<>>, DEFAULT_VOTER_COLLECTION |-> NameD],
    [VOTER_COLLECTION |-> <<" ">>, DEFAULT_VOTER_COLLECTION |-> NameD] }

NoResult == Failure(0, "", <<>>, {}, {})

\* ------------------------------------------- resolve on its own --

\* the request handlers at rest
Procs == { 1 }
CollNames == { NameA, NameB }

\* a handler's locals: `n` is changes.length, `i` the position of the loop in
\* `changes` and `ch` the element read last
IdleCur ==
  [databaseId |-> <<>>, model |-> NoModel, n |-> 0, i |-> 0, ch |-> NoChange,
   doc |-> NoDoc, outcome |-> "", successIds |-> <<>>, failed |-> <<>>]

NoUser == [role |-> "user", allowedDatabaseIds |-> [arr |-> FALSE, items |-> <<>>]]

\* the exchange of a handler: what was selected and what was answered; who
\* asked is kept with an answer given before the loop (the loop reads nothing
\* of req.user)
NoResp ==
  [kind |-> "", user |-> NoUser, selected |-> <<>>, status |-> 0, error |-> "",
   successIds |-> <<>>, failed |-> <<>>, databaseId |-> <<>>]

NoRequest == [req |-> MkReq(NoUser, NoSelection), requireExplicitSelection |-> FALSE]

InitHandlers ==
  /\ now = 1
  /\ pc = [p \in Procs |-> "idle"]
  /\ cur = [p \in Procs |-> IdleCur]
  /\ resp = [p \in Procs |-> NoResp]
  /\ ex = IdleEx
  /\ pull = NoPull
  /\ cl = IdleClone
  /\ InitAdmin

InitIdle == InitHandlers /\ script = <<>>

InitResolve ==
  /\ env \in Envs
  /\ readyState \in {0, 1}
  /\ modelCache = {}
  /\ dbModels = {}
  /\ rq \in { [req |-> MkReq(u, f), requireExplicitSelection |-> x] :
                u \in Users, f \in Selections, x \in BOOLEAN }
  /\ rres = NoResult
  /\ rpc = "start"
  /\ colls = [c \in CollNames |-> [exists |-> FALSE, docs |-> EmptyDocs]]
  /\ InitIdle

Resolve ==
  /\ rpc = "start"
  /\ LET r == resolveVoterModelForRequest(rq.req, rq.requireExplicitSelection,
                                           env, readyState, modelCache, dbModels)
     IN  /\ rres' = r
         /\ modelCache' = r.modelCache
         /\ dbModels' = r.dbModels
  /\ rpc' = "done"
  /\ UNCHANGED <<env, readyState, rq>>
  /\ UNCHANGED svars
  /\ UNCHANGED xvars
  /\ UNCHANGED cvars
  /\ UNCHANGED avars

NextResolve == Resolve

SpecResolve == InitResolve /\ [][NextResolve]_vars

\* ------------------------------------------- properties of resolve --

Permitted == getAllowedDatabasesFromUser(rq.req.user)
Explicit == extractDatabaseId(rq.req)
Elevated == rq.req.user.role = "admin"
Resolved == rpc = "done"
NoHandle == rres.model = NoModel /\ rres.databaseId = <<>> /\ modelCache = {}

\* C1: when the sanitized permitted set is non-empty and the identity is not
\* elevated, a candidate outside the permitted set is answered 403 Forbidden
\* and no handle is returned: an explicit selection outside the set is always
\* refused, and whatever resolve returns is a member of the set.
C1_ForbiddenOutsidePermitted ==
  (Resolved /\ Len(Permitted) > 0 /\ ~Elevated) =>
    /\ (rres.candidate # <<>> /\ ~includesId(Permitted, rres.candidate)) =>
         (rres.status = 403 /\ rres.error = MsgForbidden /\ NoHandle)
    /\ (Explicit # <<>> /\ ~includesId(Permitted, Explicit)) => rres.status = 403
    /\ rres.status = 200 => includesId(Permitted, rres.databaseId)

C1_Witness ==
  /\ Resolved /\ Len(Permitted) > 0 /\ ~Elevated
  /\ Explicit = <<"C">> /\ rres.status = 403 /\ NoHandle

\* C2: more than one permitted partition and no explicit selection: resolve
\* answers 400 AmbiguousSelection and returns no partition.
C2_AmbiguousWithoutSelection ==
  (Resolved /\ Len(Permitted) > 1 /\ Explicit = <<>>) =>
    (rres.status = 400 /\ rres.error = MsgChoose /\ NoHandle)

C2_Witness ==
  /\ Resolved /\ Permitted = <<NameA, NameB>> /\ Explicit = <<>>
  /\ ~rq.requireExplicitSelection /\ readyState = 1
  /\ rres.status = 400 /\ rres.error = MsgChoose

\* C3 as stated: exactly one permitted partition and no explicit selection:
\* resolve returns that partition and is not AmbiguousSelection.
C3_SoleReturned_Original ==
  (Resolved /\ Len(Permitted) = 1 /\ Explicit = <<>>) =>
    (rres.status = 200 /\ rres.databaseId = Permitted[1] /\ rres.error # MsgChoose)

\* C3 amended: exactly one permitted partition (after sanitizing) and no
\* explicit selection: called without requireExplicit, resolve never answers
\* AmbiguousSelection, its candidate is that partition, and it returns it
\* when the connection is ready (500 Unavailable when it is not); called with
\* requireExplicit it answers AmbiguousSelection.
C3_SoleReturned ==
  (Resolved /\ Len(Permitted) = 1 /\ Explicit = <<>>) =>
    IF rq.requireExplicitSelection
      THEN rres.status = 400 /\ rres.error = MsgChoose
      ELSE /\ rres.error # MsgChoose
           /\ rres.candidate = Permitted[1]
           /\ IF readyState # 0
                THEN rres.status = 200 /\ rres.databaseId = Permitted[1]
                ELSE rres.status = 500 /\ rres.error = MsgUnavailable

C3_Witness ==
  /\ Resolved /\ Len(Permitted) = 1 /\ Explicit = <<>>
  /\ ~rq.requireExplicitSelection
  /\ rres.status = 200 /\ rres.databaseId = Permitted[1]

\* C5: an explicit selection that sanitizes to non-empty is the candidate,
\* whatever the permitted set and the default are; an identity permitted
\* [A, B] that selects B resolves to B.
C5_ExplicitIsCandidate ==
  (Resolved /\ Explicit # <<>>) =>
    /\ rres.candidate = Explicit
    /\ rres.status \in {200, 403, 500}
    /\ rres.status = 200 => rres.databaseId = Explicit
    /\ (Permitted = <<NameA, NameB>> /\ Explicit = NameB /\ readyState # 0) =>
         (rres.status = 200 /\ rres.databaseId = NameB)

C5_Witness ==
  /\ Resolved /\ Permitted = <<NameA, NameB>> /\ Explicit = NameB
  /\ env.DEFAULT_VOTER_COLLECTION = NameD
  /\ rres.status = 200 /\ rres.databaseId = NameB

ConfiguredDefault ==
  IF env.VOTER_COLLECTION # <<>> THEN env.VOTER_COLLECTION
  ELSE env.DEFAULT_VOTER_COLLECTION

DefaultCase ==
  Resolved /\ Explicit = <<>> /\ ~rq.requireExplicitSelection /\ Len(Permitted) = 0

\* C6 as stated: in the default case the candidate is the configured default,
\* and with no default configured resolve answers 400 SelectionRequired.
C6_DefaultOrRequired_Original ==
  DefaultCase =>
    IF ConfiguredDefault = <<>> \/ sanitizeDatabaseId(Str(ConfiguredDefault)) = <<>>
      THEN rres.status = 400 /\ rres.error = MsgRequired
      ELSE rres.candidate = sanitizeDatabaseId(Str(ConfiguredDefault))

\* C6 amended: in the default case the candidate is the sanitized default
\* name, which is VOTER_COLLECTION, else DEFAULT_VOTER_COLLECTION, else the
\* built-in 'voters'; resolve answers 400 SelectionRequired exactly when the
\* configured value sanitizes to empty, never because none is configured.
C6_DefaultOrRequired ==
  DefaultCase =>
    LET name == IF ConfiguredDefault = <<>> THEN Voters ELSE ConfiguredDefault
    IN  IF trim(name) = <<>> \/ startsWith(trim(name), SystemPrefix)
             \/ includes(name, NUL)
          THEN rres.status = 400 /\ rres.error = MsgRequired /\ NoHandle
          ELSE /\ rres.candidate = trim(name)
               /\ rres.status \in {200, 500}
               /\ rres.status = 200 <=> readyState # 0

C6_Witness ==
  /\ DefaultCase /\ ConfiguredDefault = <<>>
  /\ rres.status = 200 /\ rres.databaseId = Voters

C6_WitnessRequired ==
  DefaultCase /\ rres.status = 400 /\ rres.error = MsgRequired

SaneName(s) ==
  /\ s # <<>>
  /\ ~IsSpace(s[1]) /\ ~IsSpace(s[Len(s)])
  /\ ~(Len(s) >= 7 /\ SubSeq(s, 1, 7) = <<"s", "y", "s", "t", "e", "m", ".">>)
  /\ \A i \in 1..Len(s) : s[i] # NUL

\* C7: every partition name resolve returns is non-empty, trimmed, does not
\* begin with 'system.' and holds no null byte; so is every name that reached
\* the handle cache, and a permitted entry or requested name that is not is
\* treated as absent.
C7_ReturnedNamesSane ==
  Resolved =>
    /\ rres.status = 200 => (SaneName(rres.databaseId) /\ SaneName(rres.model.collection))
    /\ rres.candidate # <<>> => SaneName(rres.candidate)
    /\ \A c \in modelCache : SaneName(c.key[2]) /\ SaneName(c.model.collection)
    /\ \A i \in 1..Len(Permitted) : SaneName(Permitted[i])
    /\ Explicit # <<>> => SaneName(Explicit)

C7_Witness ==
  /\ Resolved /\ rres.status = 200
  /\ rq.req.queryDatabaseId = Str(NameSys)
  /\ rq.req.queryDatabase = Str(<<" ", "C">>)
  /\ rres.databaseId = NameC
  /\ \E c \in modelCache : c.key = CacheKey(NameC)

\* C36: an identity that is not elevated and whose sanitized permitted set
\* is empty is never answered 403.  An explicit selection is the candidate,
\* whatever collection it names; with no selection and requireExplicit false
\* the candidate is the default collection's name (400 when that name
\* sanitizes to empty).  A candidate is resolved (200) when the connection is
\* ready and answered 500 when it is not.
C36_EmptySetNeverForbidden ==
  (Resolved /\ ~Elevated /\ Len(Permitted) = 0) =>
    /\ rres.status # 403
    /\ Explicit # <<>> =>
         /\ rres.candidate = Explicit
         /\ readyState # 0 => (rres.status = 200 /\ rres.databaseId = Explicit
                               /\ rres.model.collection = Explicit)
    /\ (Explicit = <<>> /\ ~rq.requireExplicitSelection) =>
         LET dflt == sanitizeDatabaseId(Str(IF ConfiguredDefault = <<>> THEN Voters
                                            ELSE ConfiguredDefault))
         IN  IF dflt = <<>> THEN rres.status = 400 /\ rres.error = MsgRequired
             ELSE /\ rres.candidate = dflt
                  /\ readyState # 0 => (rres.status = 200 /\ rres.databaseId = dflt)

\* a user without permitted collections selects B and gets its handle
C36_Witness ==
  /\ Resolved /\ ~Elevated
  /\ rq.req.user.allowedDatabaseIds = [arr |-> TRUE, items |-> <<>>]
  /\ Explicit = NameB
  /\ rres.status = 200 /\ rres.databaseId = NameB
  /\ rres.model.collection = NameB

\* a user whose only permitted entry sanitizes to nothing resolves, with no
\* selection, to the configured default D
C36_WitnessDefault ==
  /\ Resolved /\ ~Elevated
  /\ rq.req.user.allowedDatabaseIds = [arr |-> TRUE, items |-> << Str(NameSys) >>]
  /\ Explicit = <<>> /\ ~rq.requireExplicitSelection
  /\ rres.status = 200 /\ rres.databaseId = NameD

\* C30: when the store connection is not ready and resolve has a candidate
\* (it answers neither 400 nor 403), it answers 500 Unavailable, returns no
\* handle and leaves the handle cache and the connection's models as they were.
C30_UnavailableNoHandle ==
  (Resolved /\ readyState = 0 /\ rres.status \notin {400, 403}) =>
    /\ rres.status = 500
    /\ rres.error = MsgUnavailable
    /\ rres.candidate # <<>>
    /\ NoHandle
    /\ dbModels = {}

\* the connection is down and a permitted, explicitly selected partition is
\* answered 500
C30_Witness ==
  /\ Resolved
  /\ readyState = 0
  /\ rres.status = 500
  /\ Explicit # <<>>
  /\ rres.candidate = sanitizeDatabaseId(Str(Explicit))
  /\ modelCache = {}

\* ------------------------------------- routes/voters.sync.js: inputs --

MaxTime == 3        \* the clock and the clients' timestamps run over 0..MaxTime
MaxChanges == 2     \* longest `changes` array of one bulk-upsert

Payloads == { Payload(Unset, Unset), Payload("m2", Unset), Payload("m3", "n1") }

ClientTimes == { NoTime, BadTime } \cup { At(t) : t \in 1..MaxTime }

\* the elements a `changes` array may hold
Changes ==
  { Change("id1", "upsert", pl, t) : pl \in Payloads, t \in ClientTimes }
    \cup { Change("v1", "upsert", Payload("m2", Unset), At(MaxTime)),
           Change("id1", "delete", Payload("m2", Unset), At(MaxTime)),
           Change("id1", "", Payload("m2", Unset), At(MaxTime)),
           Change("", "upsert", Payload("m2", Unset), At(MaxTime)),
           NullChange }

ArrayOf(names) == [arr |-> TRUE, items |-> [i \in 1..Len(names) |-> Str(names[i])]]

SyncUsers ==
  { [role |-> "admin", allowedDatabaseIds |-> ArrayOf(<<NameA>>)],
    [role |-> "user", allowedDatabaseIds |-> ArrayOf(<<>>)],
    [role |-> "user", allowedDatabaseIds |-> ArrayOf(<<NameA>>)],
    [role |-> "user", allowedDatabaseIds |-> ArrayOf(<<NameA, NameB>>)] }

SyncSelections ==
  { NoSelection,
    [NoSelection EXCEPT ![5] = Str(NameA)],
    [NoSelection EXCEPT ![5] = Str(NameB)] }

BulkRequests == { MkReq(u, f) : u \in SyncUsers, f \in SyncSelections }

\* ----------------------------------- routes/voters.sync.js: handlers --
\* A handler is one step per stretch of code between two awaits.  The elements
\* of req.body.changes are inputs drawn as the loop reaches them; the actions
\* that take an input leave `script` to their caller.

Docs(c) == colls[c].docs

Answer(req, status, error, successIds, failed, databaseId) ==
  [kind |-> "bulk-upsert", user |-> req.user, selected |-> extractDatabaseId(req),
   status |-> status, error |-> error, successIds |-> successIds,
   failed |-> failed, databaseId |-> databaseId]

\* lines 42-53: resolve with requireExplicitSelection, then look at `changes`,
\* an array of n elements (n = 0 also stands for a body without the array)
BulkUpsertBegin(p, req, n) ==
  /\ pc[p] = "idle"
  /\ LET ctx == resolveVoterModelForRequest(req, TRUE, env, readyState,
                                             modelCache, dbModels)
     IN  /\ modelCache' = ctx.modelCache
         /\ dbModels' = ctx.dbModels
         /\ IF ctx.status # 200
              THEN /\ resp' = [resp EXCEPT ![p] =
                        Answer(req, ctx.status, ctx.error, <<>>, <<>>, <<>>)]
                   /\ pc' = [pc EXCEPT ![p] = "sent"]
                   /\ UNCHANGED cur
            ELSE IF n = 0
              THEN /\ resp' = [resp EXCEPT ![p] = Answer(req, 200, "", <<>>, <<>>, <<>>)]
                   /\ pc' = [pc EXCEPT ![p] = "sent"]
                   /\ UNCHANGED cur
            ELSE /\ pc' = [pc EXCEPT ![p] = "next"]
                 /\ cur' = [cur EXCEPT ![p] =
                      [IdleCur EXCEPT !.databaseId = ctx.databaseId,
                                      !.model = ctx.model, !.n = n, !.i = 1]]
                 /\ resp' = [resp EXCEPT ![p] =
                      [NoResp EXCEPT !.selected = extractDatabaseId(req)]]
  /\ UNCHANGED <<env, readyState, colls, now>>
  /\ UNCHANGED rvars
  /\ UNCHANGED xvars
  /\ UNCHANGED cvars
  /\ UNCHANGED avars

MsgBulkFailed == "bulk_upsert_failed"

\* `successIds` and `failed` kept by the module, not by the call
Advance_Shared(p, outcome, doc, ok, bad) ==
  [cur[p] EXCEPT !.i = @ + 1, !.outcome = outcome, !.doc = doc,
                 !.successIds =
                    (IF DOMAIN cur = {p} THEN <<>>
                     ELSE cur[CHOOSE q \in DOMAIN cur \ {p} : TRUE].successIds)
                      \o @ \o ok,
                 !.failed = @ \o bad]

\* a variant that puts the new entry in front
Advance_Front(p, outcome, doc, ok, bad) ==
  [cur[p] EXCEPT !.i = @ + 1, !.outcome = outcome, !.doc = doc,
                 !.successIds = ok \o @, !.failed = bad \o @]

\* `continue`, or the end of the loop's body
Advance(p, outcome, doc, ok, bad) ==
  [cur[p] EXCEPT !.i = @ + 1, !.outcome = outcome, !.doc = doc,
                 !.successIds = @ \o ok, !.failed = @ \o bad]

\* line 58: the element read is a change without _id or with another op
BadChange(p, ch) ==
  /\ pc[p] = "next"
  /\ cur[p].i <= cur[p].n
  /\ ~IsNull(ch)
  /\ badChange(ch)
  /\ cur' = [cur EXCEPT ![p] =
        [Advance(p, "bad_change", NoDoc, <<>>,
                 << [_id |-> ch._id, reason |-> "bad_change"] >>) EXCEPT !.ch = ch]]
  /\ UNCHANGED <<env, readyState, modelCache, dbModels, colls, now, pc, resp>>
  /\ UNCHANGED rvars
  /\ UNCHANGED xvars
  /\ UNCHANGED cvars
  /\ UNCHANGED avars

\* line 60: await VoterModel.findById(_id); a CastError goes to the catch
FindById(p, ch) ==
  /\ pc[p] = "next"
  /\ cur[p].i <= cur[p].n
  /\ readyState # 0
  /\ ~IsNull(ch)
  /\ ~badChange(ch)
  /\ IF ~IsObjectId(ch._id)
       THEN /\ cur' = [cur EXCEPT ![p] =
                 [Advance(p, "exception", NoDoc, <<>>,
                          << [_id |-> ch._id, reason |-> "exception"] >>)
                    EXCEPT !.ch = ch]]
            /\ UNCHANGED pc
       ELSE /\ cur' = [cur EXCEPT ![p].ch = ch,
                                  ![p].doc = Docs(cur[p].model.collection)[ch._id]]
            /\ pc' = [pc EXCEPT ![p] = "found"]
  /\ UNCHANGED <<env, readyState, modelCache, dbModels, colls, now, resp>>
  /\ UNCHANGED rvars
  /\ UNCHANGED xvars
  /\ UNCHANGED cvars
  /\ UNCHANGED avars

\* lines 57, 73-75 and 80-83: the element is null: the destructuring throws
\* inside the loop's try, `ch._id` throws again inside its catch, and the
\* handler's catch answers 500 bulk_upsert_failed
NullElement(p, ch) ==
  /\ pc[p] = "next"
  /\ cur[p].i <= cur[p].n
  /\ IsNull(ch)
  /\ resp' = [resp EXCEPT ![p] =
        [@ EXCEPT !.kind = "bulk-upsert", !.status = 500, !.error = MsgBulkFailed]]
  /\ pc' = [pc EXCEPT ![p] = "sent"]
  /\ cur' = [cur EXCEPT ![p] = IdleCur]
  /\ UNCHANGED <<env, readyState, modelCache, dbModels, colls, now>>
  /\ UNCHANGED rvars
  /\ UNCHANGED xvars
  /\ UNCHANGED cvars
  /\ UNCHANGED avars

\* lines 61-65: no document was found: await VoterModel.create(...)
\* (an insert into a collection that does not exist creates it; an insert of
\* an _id that exists by now is a duplicate key error)
Create(p) ==
  /\ pc[p] = "found"
  /\ ~cur[p].doc.present
  /\ readyState # 0
  /\ LET ch == cur[p].ch
         c  == cur[p].model.collection
     IN  IF Docs(c)[ch._id].present
           THEN /\ cur' = [cur EXCEPT ![p] =
                     Advance(p, "exception", cur[p].doc, <<>>,
                             << [_id |-> ch._id, reason |-> "exception"] >>)]
                /\ UNCHANGED colls
           ELSE /\ colls' = [colls EXCEPT ![c] =
                     [exists |-> TRUE,
                      docs |-> [Docs(c) EXCEPT ![ch._id] = create(ch.payload, now)]]]
                /\ cur' = [cur EXCEPT ![p] =
                     Advance(p, "created", cur[p].doc, <<ch._id>>, <<>>)]
  /\ pc' = [pc EXCEPT ![p] = "next"]
  /\ UNCHANGED <<env, readyState, modelCache, dbModels, now, resp, script>>
  /\ UNCHANGED rvars
  /\ UNCHANGED xvars
  /\ UNCHANGED cvars
  /\ UNCHANGED avars

\* lines 66-72: a document was found: compare, Object.assign, await doc.save()
\* (a save of a document that is gone by now is a DocumentNotFoundError)
Merge(p) ==
  /\ pc[p] = "found"
  /\ cur[p].doc.present
  /\ LET ch     == cur[p].ch
         c      == cur[p].model.collection
         edited == assign(cur[p].doc, ch.payload)
     IN  IF ~incomingWins(ch.updatedAt, cur[p].doc)
           THEN /\ cur' = [cur EXCEPT ![p] =
                     Advance(p, "kept", cur[p].doc, <<ch._id>>, <<>>)]
                /\ UNCHANGED colls
         ELSE IF edited = cur[p].doc
           THEN /\ cur' = [cur EXCEPT ![p] =
                     Advance(p, "merged", cur[p].doc, <<ch._id>>, <<>>)]
                /\ UNCHANGED colls
         ELSE /\ readyState # 0
              /\ IF ~Docs(c)[ch._id].present
                   THEN /\ cur' = [cur EXCEPT ![p] =
                             Advance(p, "exception", cur[p].doc, <<>>,
                                     << [_id |-> ch._id, reason |-> "exception"] >>)]
                        /\ UNCHANGED colls
                   ELSE /\ colls' = [colls EXCEPT ![c].docs[ch._id] =
                             save(@, cur[p].doc, edited, now)]
                        /\ cur' = [cur EXCEPT ![p] =
                             Advance(p, "merged", cur[p].doc, <<ch._id>>, <<>>)]
  /\ pc' = [pc EXCEPT ![p] = "next"]
  /\ UNCHANGED <<env, readyState, modelCache, dbModels, now, resp, script>>
  /\ UNCHANGED rvars
  /\ UNCHANGED xvars
  /\ UNCHANGED cvars
  /\ UNCHANGED avars

\* line 79: res.json({ successIds, failed, databaseId })
Respond(p) ==
  /\ pc[p] = "next"
  /\ cur[p].i > cur[p].n
  /\ resp' = [resp EXCEPT ![p] =
        [@ EXCEPT !.kind = "bulk-upsert", !.status = 200,
                  !.successIds = cur[p].successIds, !.failed = cur[p].failed,
                  !.databaseId = cur[p].databaseId]]
  /\ pc' = [pc EXCEPT ![p] = "sent"]
  /\ cur' = [cur EXCEPT ![p] = IdleCur]
  /\ UNCHANGED <<env, readyState, modelCache, dbModels, colls, now, script>>
  /\ UNCHANGED rvars
  /\ UNCHANGED xvars
  /\ UNCHANGED cvars
  /\ UNCHANGED avars

\* the answer is with the client and the handler is over
Finish(p) ==
  /\ pc[p] = "sent"
  /\ pc' = [pc EXCEPT ![p] = "idle"]
  /\ resp' = [resp EXCEPT ![p] = NoResp]
  /\ UNCHANGED <<env, readyState, modelCache, dbModels, colls, now, cur, script>>
  /\ UNCHANGED rvars
  /\ UNCHANGED xvars
  /\ UNCHANGED cvars
  /\ UNCHANGED avars

\* the server's clock advances
Tick ==
  /\ now < MaxTime
  /\ now' = now + 1
  /\ UNCHANGED <<env, readyState, modelCache, dbModels, colls, pc, cur, resp, script>>
  /\ UNCHANGED rvars
  /\ UNCHANGED xvars
  /\ UNCHANGED cvars
  /\ UNCHANGED avars

\* ------------------------------------------------- the sync endpoints --

MasterDocs(t) ==
  [EmptyDocs EXCEPT !["id1"] =
     [present |-> TRUE, mobile |-> "m1", name |-> Unset, updatedAt |-> t]]

\* collection A holds one record, written at time 1 or imported without
\* timestamps; collection B exists and is empty
InitStore ==
  \E t \in {0, 1} :
    colls = [c \in CollNames |->
               IF c = NameA THEN [exists |-> TRUE, docs |-> MasterDocs(t)]
               ELSE [exists |-> TRUE, docs |-> EmptyDocs]]

Init ==
  /\ env = [VOTER_COLLECTION |-> <<>>, DEFAULT_VOTER_COLLECTION |-> <<>>]
  /\ readyState \in {0, 1}
  /\ modelCache = {}
  /\ dbModels = {}
  /\ rq = NoRequest
  /\ rres = NoResult
  /\ rpc = "done"
  /\ InitStore
  /\ InitIdle

Quiet == \A p \in Procs : pc[p] = "idle"

Next ==
  \/ \E p \in Procs, req \in BulkRequests, n \in 0..MaxChanges :
       Quiet /\ BulkUpsertBegin(p, req, n) /\ UNCHANGED script
  \/ \E p \in Procs, ch \in Changes : BadChange(p, ch) /\ UNCHANGED script
  \/ \E p \in Procs, ch \in Changes : FindById(p, ch) /\ UNCHANGED script
  \/ \E p \in Procs, ch \in Changes : NullElement(p, ch) /\ UNCHANGED script
  \/ \E p \in Procs : Create(p)
  \/ \E p \in Procs : Merge(p)
  \/ \E p \in Procs : Respond(p)
  \/ \E p \in Procs : Finish(p)
  \/ Tick

Spec == Init /\ [][Next]_vars

\* --------------------------------------- properties of bulk-upsert --

\* C4: bulk-upsert resolves with requireExplicitSelection: a request without
\* an explicit selection is answered 400 AmbiguousSelection whoever asks (also
\* an identity with one or no permitted partition), with nothing processed,
\* is never taken into the loop, and its step changes no record of any
\* partition.
C4_NoSelectionIsAmbiguous ==
  /\ [](\A p \in Procs :
          /\ (resp[p].kind = "bulk-upsert" /\ resp[p].selected = <<>>) =>
               /\ resp[p].status = 400 /\ resp[p].error = MsgChoose
               /\ resp[p].successIds = <<>> /\ resp[p].failed = <<>>
          /\ pc[p] \in {"next", "found"} => resp[p].selected # <<>>)
  /\ [][\A p \in Procs :
          (pc[p] = "idle" /\ pc'[p] # "idle" /\ resp'[p].selected = <<>>) =>
            (pc'[p] = "sent" /\ colls' = colls)]_vars

C4_Witness ==
  \E p \in Procs :
    /\ pc[p] = "sent" /\ resp[p].selected = <<>>
    /\ resp[p].user.role = "user"
    /\ getAllowedDatabasesFromUser(resp[p].user) = <<NameA>>
    /\ readyState = 1
    /\ resp[p].status = 400 /\ resp[p].error = MsgChoose

\* the loop has dealt with the element cur[p].ch
Processed(p) == pc[p] = "next" /\ cur[p].i > 1

\* ... which was an upsert of a record that findById found
OnExisting(p) == Processed(p) /\ cur[p].doc.present

\* ... and whose id is the one reported last in successIds
Reported(p) ==
  /\ cur[p].successIds # <<>>
  /\ cur[p].successIds[Len(cur[p].successIds)] = cur[p].ch._id
  /\ Len(cur[p].successIds) + Len(cur[p].failed) = cur[p].i - 1

Stored(p) == Docs(cur[p].model.collection)[cur[p].ch._id]

\* C8: a change with timestamp t to a record found with updatedAt T: when
\* t < T the stored record is as it was found; when t >= T (ties included)
\* every field of the payload is stored and every other field is as it was
\* found; in both cases the id is reported in successIds.
C8_MergeByTimestamp ==
  \A p \in Procs :
    (OnExisting(p) /\ cur[p].ch.updatedAt.k = "date") =>
      LET ch    == cur[p].ch
          found == cur[p].doc
          t     == ch.updatedAt.t
          T     == found.updatedAt
      IN  /\ t < T => Stored(p) = found
          /\ t >= T =>
               /\ Stored(p).mobile =
                    IF ch.payload.mobile # Unset THEN ch.payload.mobile ELSE found.mobile
               /\ Stored(p).name =
                    IF ch.payload.name # Unset THEN ch.payload.name ELSE found.name
          /\ Reported(p)

C8_Witness ==
  \E p \in Procs :
    /\ OnExisting(p) /\ cur[p].ch.updatedAt.k = "date"
    /\ cur[p].ch.updatedAt.t < cur[p].doc.updatedAt
    /\ cur[p].ch.payload.mobile # Unset
    /\ Stored(p).mobile # cur[p].ch.payload.mobile
    /\ Stored(p) = cur[p].doc
    /\ Reported(p)

\* the tie: a change as old as the record is stored
C8_WitnessTie ==
  \E p \in Procs :
    /\ OnExisting(p) /\ cur[p].ch.updatedAt.k = "date"
    /\ cur[p].ch.updatedAt.t = cur[p].doc.updatedAt
    /\ cur[p].ch.payload.mobile # cur[p].doc.mobile
    /\ Stored(p).mobile = cur[p].ch.payload.mobile

\* ... an upsert of a record that findById did not find, or could not look for
OnAbsent(p) == Processed(p) /\ ~badChange(cur[p].ch) /\ ~cur[p].doc.present

\* C10 as stated: an upsert whose identifier has no record creates the record
\* with the payload's fields and reports the id in successIds, for every
\* identifier (v1 as well).
C10_CreateWhenAbsent_Original ==
  \A p \in Procs :
    OnAbsent(p) =>
      /\ Reported(p)
      /\ cur[p].ch._id \in DOMAIN Docs(cur[p].model.collection)
      /\ Stored(p).present
      /\ Stored(p).mobile = cur[p].ch.payload.mobile
      /\ Stored(p).name = cur[p].ch.payload.name

\* C10 amended: an upsert whose identifier is an ObjectId without a record in
\* the resolved partition creates exactly that record, with the payload's
\* fields, whatever the change's updatedAt is, and reports the id in
\* successIds; an identifier that is no ObjectId (v1) creates nothing and is
\* reported in failed with reason 'exception'.
C10_CreateWhenAbsent ==
  [][\A p \in Procs :
       /\ (pc[p] = "found" /\ ~cur[p].doc.present /\ pc'[p] = "next") =>
            LET ch == cur[p].ch
                c  == cur[p].model.collection
            IN  /\ IsObjectId(ch._id)
                /\ colls'[c].docs[ch._id].present
                /\ colls'[c].docs[ch._id].mobile = ch.payload.mobile
                /\ colls'[c].docs[ch._id].name = ch.payload.name
                /\ \A c2 \in CollNames, id \in ObjectIds :
                     (c2 # c \/ id # ch._id) => colls'[c2].docs[id] = colls[c2].docs[id]
                /\ cur'[p].successIds = Append(cur[p].successIds, ch._id)
                /\ cur'[p].failed = cur[p].failed
       /\ (pc[p] = "next" /\ pc'[p] = "next" /\ cur'[p].i = cur[p].i + 1
             /\ ~badChange(cur'[p].ch)) =>
            /\ ~IsObjectId(cur'[p].ch._id)
            /\ colls' = colls
            /\ cur'[p].successIds = cur[p].successIds
            /\ cur'[p].failed =
                 Append(cur[p].failed, [_id |-> cur'[p].ch._id, reason |-> "exception"])
    ]_vars

\* a record created in the empty collection B from a change without a usable
\* timestamp
C10_Witness ==
  \E p \in Procs :
    /\ OnAbsent(p) /\ cur[p].model.collection = NameB
    /\ cur[p].ch._id = "id1" /\ cur[p].ch.updatedAt = BadTime
    /\ cur[p].ch.payload = Payload("m2", Unset)
    /\ Docs(NameB) = [EmptyDocs EXCEPT !["id1"] = create(Payload("m2", Unset), now)]
    /\ cur[p].successIds = <<"id1">>

C10_WitnessNoObjectId ==
  \E p \in Procs :
    /\ OnAbsent(p) /\ cur[p].ch._id = "v1"
    /\ cur[p].failed = << [_id |-> "v1", reason |-> "exception"] >>

\* ------------------------------------- two pushes to the same record --

LwwRequest ==
  MkReq([role |-> "admin", allowedDatabaseIds |-> ArrayOf(<<NameA>>)],
        [NoSelection EXCEPT ![5] = Str(NameA)])

Older(t) == Change("id1", "upsert", Payload("m2", Unset), At(t))
Newer(t) == Change("id1", "upsert", Payload("m3", "n1"), At(t))

\* the two changes in either order, with timestamps t1 < t2 not older than
\* the record's updatedAt
Scripts ==
  UNION { { <<Older(tt[1]), Newer(tt[2])>>, <<Newer(tt[2]), Older(tt[1])>> } :
            tt \in { x \in (1..MaxTime) \X (1..MaxTime) : x[1] < x[2] } }

InitLww ==
  /\ env = [VOTER_COLLECTION |-> <<>>, DEFAULT_VOTER_COLLECTION |-> <<>>]
  /\ readyState = 1
  /\ modelCache = {}
  /\ dbModels = {}
  /\ rq = NoRequest
  /\ rres = NoResult
  /\ rpc = "done"
  /\ InitStore
  /\ InitHandlers
  /\ script \in Scripts

\* one call per change of the script, one after the other
NextLww ==
  \/ \E p \in Procs :
       Quiet /\ script # <<>> /\ BulkUpsertBegin(p, LwwRequest, 1) /\ UNCHANGED script
  \/ \E p \in Procs :
       script # <<>> /\ FindById(p, Head(script)) /\ script' = Tail(script)
  \/ \E p \in Procs : Merge(p)
  \/ \E p \in Procs : Respond(p)
  \/ \E p \in Procs : Finish(p)
  \/ Tick

SpecLww == InitLww /\ [][NextLww]_vars

\* C9: last-write-wins: after both calls the record holds, in the field both
\* changes write, the value of the change with the greater timestamp.
C9_LastWriteWins ==
  (script = <<>> /\ Quiet) => Docs(NameA)["id1"].mobile = "m3"

\* ------------------------------------------ the loop of bulk-upsert --

\* one element is accounted for: one more entry in successIds or in failed
OneMore(p) ==
  /\ cur'[p].i = cur[p].i + 1
  /\ Len(cur'[p].successIds) + Len(cur'[p].failed) =
       Len(cur[p].successIds) + Len(cur[p].failed) + 1

\* C11: a handler in the loop only moves on in the loop, where an element that
\* raised an exception is reported last in failed with reason 'exception' and
\* every element adds one entry to successIds or failed, and leaves the loop
\* only behind the last element, answering 200 with {successIds, failed};
\* for every element `changes` may hold.
C11_ExceptionsDoNotAbort ==
  [][\A p \in Procs :
       pc[p] \in {"next", "found"} =>
         \/ /\ pc'[p] \in {"next", "found"}
            /\ cur'[p].n = cur[p].n
            /\ cur'[p].i = cur[p].i \/ OneMore(p)
            /\ (cur'[p].i # cur[p].i /\ cur'[p].outcome = "exception") =>
                 cur'[p].failed =
                   Append(cur[p].failed, [_id |-> cur'[p].ch._id, reason |-> "exception"])
         \/ /\ pc'[p] = "sent"
            /\ cur[p].i > cur[p].n
            /\ resp'[p].status = 200
            /\ resp'[p].successIds = cur[p].successIds
            /\ resp'[p].failed = cur[p].failed
    ]_vars

\* an object without identifier or whose operation kind is not 'upsert'
Rejected(ch) == ~ch.nul /\ (ch._id = "" \/ ch.op # "upsert")

\* C12: an element without _id, or whose op is missing or not 'upsert', is
\* reported last in failed with reason 'bad_change', touches no collection and
\* is never looked up, and the loop goes on to the next element.
C12_BadChangeRejected ==
  /\ [](\A p \in Procs : pc[p] = "found" => ~Rejected(cur[p].ch))
  /\ [][\A p \in Procs :
          (pc[p] = "next" /\ cur'[p].i = cur[p].i + 1 /\ Rejected(cur'[p].ch)) =>
            /\ cur'[p].failed =
                 Append(cur[p].failed, [_id |-> cur'[p].ch._id, reason |-> "bad_change"])
            /\ cur'[p].successIds = cur[p].successIds
            /\ colls' = colls
            /\ pc'[p] = "next" /\ cur'[p].n = cur[p].n
       ]_vars

\* a change without op, then a change that is stored
C12_Witness ==
  \E p \in Procs :
    /\ Processed(p) /\ cur[p].i = 3
    /\ cur[p].failed = << [_id |-> "id1", reason |-> "bad_change"] >>
    /\ cur[p].successIds = << "id1" >>
    /\ cur[p].outcome = "merged"
    /\ Stored(p).mobile = "m3"

\* ------------------------------------------- GET /export: the handler --
\* ExportBegin and ExportRespond, where a client gives and takes, leave `pull`
\* to their caller.

ExportFailed(e) ==
  [e EXCEPT !.pc = "sent",
            !.res = [NoExport EXCEPT !.status = 500, !.error = MsgExportFailed]]

\* lines 13-22: resolve (without requireExplicitSelection), page, limit, skip,
\* since and filter
ExportBegin(req, query) ==
  /\ ex.pc = "idle"
  /\ LET ctx == resolveVoterModelForRequest(req, FALSE, env, readyState,
                                             modelCache, dbModels)
     IN  /\ modelCache' = ctx.modelCache
         /\ dbModels' = ctx.dbModels
         /\ IF ctx.status # 200
              THEN ex' = [IdleEx EXCEPT !.pc = "sent", !.query = query,
                            !.res = [NoExport EXCEPT !.status = ctx.status,
                                                     !.error = ctx.error]]
              ELSE ex' = [IdleEx EXCEPT !.pc = "query", !.query = query,
                            !.model = ctx.model, !.databaseId = ctx.databaseId,
                            !.page = pageOf(query), !.limit = limitOf(query),
                            !.skip = skipOf(pageOf(query), limitOf(query))]
  /\ UNCHANGED <<env, readyState>>
  /\ UNCHANGED rvars
  /\ UNCHANGED svars
  /\ UNCHANGED cvars
  /\ UNCHANGED avars

\* line 25: the find of Promise.all answers.  A since that is no date cannot
\* be cast and the query is refused; a skip or limit of NaN is refused or read
\* as 0 by the driver and the server.
ExportFind ==
  /\ ex.pc = "query" /\ ~ex.haveItems
  /\ LET docs == Docs(ex.model.collection)
     IN  IF ex.query.since.k = "bad"
           THEN ex' = ExportFailed(ex)
         ELSE IF ex.skip.nan \/ ex.limit.nan
           THEN \/ ex' = ExportFailed(ex)
                \/ ex' = [ex EXCEPT !.haveItems = TRUE,
                            !.items = find(docs, ex.query.since,
                                           IF ex.skip.nan THEN 0 ELSE ex.skip.v,
                                           IF ex.limit.nan THEN 0 ELSE ex.limit.v)]
         ELSE ex' = [ex EXCEPT !.haveItems = TRUE,
                       !.items = find(docs, ex.query.since, ex.skip.v, ex.limit.v)]
  /\ UNCHANGED <<env, readyState, modelCache, dbModels, pull>>
  /\ UNCHANGED rvars
  /\ UNCHANGED svars
  /\ UNCHANGED cvars
  /\ UNCHANGED avars

\* line 26: the countDocuments of Promise.all answers
ExportCount ==
  /\ ex.pc = "query" /\ ~ex.haveCount
  /\ IF ex.query.since.k = "bad"
       THEN ex' = ExportFailed(ex)
       ELSE ex' = [ex EXCEPT !.haveCount = TRUE,
                     !.count = countDocuments(Docs(ex.model.collection), ex.query.since)]
  /\ UNCHANGED <<env, readyState, modelCache, dbModels, pull>>
  /\ UNCHANGED rvars
  /\ UNCHANGED svars
  /\ UNCHANGED cvars
  /\ UNCHANGED avars

\* lines 29-32: hasMore, serverTime = new Date().toISOString(), res.json(...);
\* NaN + n < count is false
ExportRespond ==
  /\ ex.pc = "query" /\ ex.haveItems /\ ex.haveCount
  /\ ex' = [ex EXCEPT !.pc = "sent",
              !.res = [status |-> 200, error |-> "", items |-> ex.items,
                       hasMore |-> IF ex.skip.nan THEN FALSE
                                   ELSE hasMoreOf(ex.skip.v, ex.items, ex.count),
                       serverTime |-> At(now), page |-> ex.page,
                       count |-> ex.count, databaseId |-> ex.databaseId]]
  /\ UNCHANGED <<env, readyState, modelCache, dbModels>>
  /\ UNCHANGED rvars
  /\ UNCHANGED svars
  /\ UNCHANGED cvars
  /\ UNCHANGED avars

\* the answer is with the client and the handler is over
ExportFinish ==
  /\ ex.pc = "sent"
  /\ ex' = IdleEx
  /\ UNCHANGED <<env, readyState, modelCache, dbModels, pull>>
  /\ UNCHANGED rvars
  /\ UNCHANGED svars
  /\ UNCHANGED cvars
  /\ UNCHANGED avars

\* ------------------------------------------ GET /export: bounded inputs --

PageStrings ==
  { NotAString, Str(<<"0">>), Str(<<"2">>), Str(<<"3">>), Str(<<"x">>),
    Str(<<" ", "2", "x">>) }

LimitStrings ==
  { NotAString, Str(<<"1">>), Str(<<"2">>), Str(<<"-", "3">>),
    Str(<<"2", "0", "0", "0", "1">>), Str(<<"x">>) }

Sinces == { NoTime, BadTime } \cup { At(t) : t \in 0..MaxTime }

Queries == [page : PageStrings, limit : LimitStrings, since : Sinces]

ExportRequests ==
  { MkReq([role |-> "user", allowedDatabaseIds |-> ArrayOf(<<NameA>>)], NoSelection),
    MkReq([role |-> "user", allowedDatabaseIds |-> ArrayOf(<<NameA, NameB>>)],
          NoSelection) }

\* a record of the master as an import or an earlier write left it
Written(t) == [present |-> TRUE, mobile |-> "m1", name |-> Unset, updatedAt |-> t]

\* every collection of up to three such records
Stores == [ObjectIds -> { NoDoc } \cup { Written(t) : t \in 0..MaxTime }]

InitExport ==
  /\ env = [VOTER_COLLECTION |-> <<>>, DEFAULT_VOTER_COLLECTION |-> <<>>]
  /\ readyState = 1
  /\ modelCache = {}
  /\ dbModels = {}
  /\ rq = NoRequest
  /\ rres = NoResult
  /\ rpc = "done"
  /\ \E docs \in Stores :
       colls = [c \in CollNames |->
                  IF c = NameA THEN [exists |-> TRUE, docs |-> docs]
                  ELSE [exists |-> TRUE, docs |-> EmptyDocs]]
  /\ InitIdle

NextExport ==
  \/ \E req \in ExportRequests, query \in Queries :
       ExportBegin(req, query) /\ UNCHANGED pull
  \/ ExportFind
  \/ ExportCount
  \/ ExportRespond /\ UNCHANGED pull
  \/ ExportFinish

SpecExport == InitExport /\ [][NextExport]_vars

\* ------------------------------------------ a client that pulls pages --

\* String(n) of a page number
RECURSIVE decimal(_)
decimal(n) ==
  IF n < 10 THEN << Digits[n + 1] >>
  ELSE decimal(n \div 10) \o << Digits[(n % 10) + 1] >>

PullRequest ==
  MkReq([role |-> "user", allowedDatabaseIds |-> ArrayOf(<<NameA>>)], NoSelection)

\* the client starts a pull with a limit and a since of its choice
PullStart(limit, since) ==
  /\ pull.phase = "off"
  /\ pull' = [pull EXCEPT !.phase = "ask", !.round = 1, !.since = since,
                          !.limit = limit, !.page = 1]
  /\ UNCHANGED <<env, readyState, modelCache, dbModels, ex>>
  /\ UNCHANGED rvars
  /\ UNCHANGED svars
  /\ UNCHANGED cvars
  /\ UNCHANGED avars

\* GET /export?page=<page>&limit=<limit>&since=<since>
PullAskAs(req) ==
  /\ pull.phase = "ask"
  /\ ExportBegin(req,
                 [page |-> Str(decimal(pull.page)), limit |-> pull.limit,
                  since |-> pull.since])
  /\ pull' = [pull EXCEPT !.phase = "wait"]

PullAsk == PullAskAs(PullRequest)

\* the records a client holds after it took in the items of a page
takeIn(have, items) ==
  [id \in ObjectIds |->
     IF \E i \in DOMAIN items : items[i]._id = id
       THEN LET it == items[CHOOSE i \in DOMAIN items : items[i]._id = id]
            IN  [present |-> TRUE, mobile |-> it.mobile, name |-> it.name,
                 updatedAt |-> it.updatedAt]
       ELSE have[id]]

\* the answer to a page: the client keeps the items, remembers the serverTime
\* of the first page, and asks for the next page while hasMore is true
PullReceive ==
  /\ pull.phase = "wait"
  /\ ExportRespond
  /\ LET res == ex'.res
     IN  pull' = [pull EXCEPT
           !.phase = IF res.hasMore THEN "ask" ELSE "done",
           !.page = IF res.hasMore THEN @ + 1 ELSE @,
           !.got = @ \o res.items,
           !.have = takeIn(@, res.items),
           !.first = IF pull.page = 1 THEN res.serverTime ELSE @,
           !.truth = IF res.hasMore \/ pull.round > 1 THEN @
                     ELSE Docs(ex.model.collection)]

PullLimits == { NotAString, Str(<<"1">>), Str(<<"2">>), Str(<<"-", "3">>) }

PullSinces == { NoTime } \cup { At(t) : t \in 0..MaxTime }

\* a client pulls a collection that nobody writes
NextPages ==
  \/ \E limit \in PullLimits, since \in PullSinces : PullStart(limit, since)
  \/ PullAsk
  \/ ExportFind
  \/ ExportCount
  \/ PullReceive
  \/ ExportFinish

SpecPages == InitExport /\ [][NextPages]_vars

\* ------------------------------------------------ properties of a pull --

\* the records of the pulled collection that a pull with this since is owed,
\* in ascending order of id
Owed(since) ==
  SelectSeq(IdOrder,
            LAMBDA id : /\ Docs(NameA)[id].present
                        /\ since.k = "date" => Docs(NameA)[id].updatedAt > since.t)

\* C13: over a collection that nobody writes, the pages of a pull, taken until
\* hasMore is false, hold exactly the records that match since, each once, in
\* ascending order of id, whatever the page size.
C13_PagesAreComplete ==
  pull.phase = "done" =>
    LET ids == Owed(pull.since)
    IN  /\ Len(pull.got) = Len(ids)
        /\ \A i \in DOMAIN ids :
             pull.got[i] = Item(ids[i], Docs(NameA)[ids[i]])

\* three records pulled in two pages of two
C13_Witness ==
  /\ pull.phase = "done"
  /\ pull.limit = Str(<<"2">>)
  /\ pull.page = 2
  /\ Len(pull.got) = 3

\* a pull behind a cursor, one record a page
C13_WitnessSince ==
  /\ pull.phase = "done"
  /\ pull.limit = Str(<<"1">>)
  /\ pull.since = At(1)
  /\ pull.page = 2
  /\ Len(pull.got) = 2
  /\ \E id \in ObjectIds :
       Docs(NameA)[id].present /\ Docs(NameA)[id].updatedAt = 1

\* ------------------------------------- pulls while another client pushes --

\* the client's next pull: the serverTime of the pull before is its since
PullAgain ==
  /\ pull.phase = "done"
  /\ pull.round = 1
  /\ pull' = [pull EXCEPT !.phase = "ask", !.round = 2, !.since = pull.first,
                          !.page = 1, !.got = <<>>]
  /\ UNCHANGED <<env, readyState, modelCache, dbModels, ex>>
  /\ UNCHANGED rvars
  /\ UNCHANGED svars
  /\ UNCHANGED cvars
  /\ UNCHANGED avars

Edit == Change("id1", "upsert", Payload("m2", Unset), At(MaxTime))
Add  == Change("id2", "upsert", Payload("m3", "n1"), At(1))

\* what the pushing client sends, one call per change
SyncScripts == { <<Edit>>, <<Add>>, <<Edit, Add>>, <<Add, Edit>> }

SyncLimits == { NotAString, Str(<<"1">>) }

InitSync ==
  /\ env = [VOTER_COLLECTION |-> <<>>, DEFAULT_VOTER_COLLECTION |-> <<>>]
  /\ readyState = 1
  /\ modelCache = {}
  /\ dbModels = {}
  /\ rq = NoRequest
  /\ rres = NoResult
  /\ rpc = "done"
  /\ InitStore
  /\ InitHandlers
  /\ script \in SyncScripts

\* one client pulls twice while another pushes the changes of the script
NextSync ==
  \/ \E p \in Procs :
       Quiet /\ script # <<>> /\ BulkUpsertBegin(p, LwwRequest, 1) /\ UNCHANGED script
  \/ \E p \in Procs :
       script # <<>> /\ FindById(p, Head(script)) /\ script' = Tail(script)
  \/ \E p \in Procs : Create(p)
  \/ \E p \in Procs : Merge(p)
  \/ \E p \in Procs : Respond(p)
  \/ \E p \in Procs : Finish(p)
  \/ Tick
  \/ \E limit \in SyncLimits : PullStart(limit, NoTime)
  \/ PullAsk
  \/ ExportFind
  \/ ExportCount
  \/ PullReceive
  \/ ExportFinish
  \/ PullAgain

SpecSync == InitSync /\ [][NextSync]_vars

\* C15: a client that takes the serverTime of a pull as the since of its next
\* pull is left with no gap: after the next pull it holds, of every record
\* committed before the serverTime of the first pull was taken, that version
\* or a later one. (Stated for the versions whose updatedAt lies strictly
\* before that serverTime.)
C15_NoGap ==
  (pull.round = 2 /\ pull.phase = "done") =>
    \A id \in ObjectIds :
      (pull.truth[id].present /\ pull.truth[id].updatedAt < pull.since.t) =>
        /\ pull.have[id].present
        /\ pull.have[id].updatedAt >= pull.truth[id].updatedAt

\* ------------------------------------------- properties of GET /export --

\* the export handler has answered a request that resolve let through
Answered == ex.pc = "sent" /\ ex.databaseId # <<>>

\* ... with page and limit that are numbers
Numeric == ~ex.page.nan /\ ~ex.limit.nan

\* the records of the collection that the request's since lets through
Matching ==
  { id \in ObjectIds :
      /\ Docs(ex.model.collection)[id].present
      /\ ex.query.since.k = "date" =>
           Docs(ex.model.collection)[id].updatedAt > ex.query.since.t }

\* C14: an answered export has hasMore = (skip + number of items < count) with
\* skip = (page - 1) * limit; a page beyond the last one is answered 200 with
\* no item and hasMore = false; numeric page and limit and a since that is a
\* date (or none) are never answered with an error.
C14_HasMore ==
  (Answered /\ Numeric /\ ex.query.since.k # "bad") =>
    LET skip == (ex.page.v - 1) * ex.limit.v
    IN  /\ ex.res.status = 200
        /\ ex.res.page = ex.page
        /\ ex.res.hasMore = (skip + Len(ex.res.items) < ex.res.count)
        /\ skip >= Cardinality(Matching) =>
             (ex.res.items = <<>> /\ ex.res.hasMore = FALSE)

C14_Witness ==
  /\ Answered /\ ex.res.status = 200
  /\ ex.page = Num(3) /\ ex.limit = Num(2) /\ ex.res.count = 3
  /\ ex.res.items = <<>> /\ ex.res.hasMore = FALSE

\* a page in the middle: more to come
C14_WitnessMore ==
  /\ Answered /\ ex.res.status = 200
  /\ ex.page = Num(2) /\ ex.limit = Num(1) /\ ex.res.count = 3
  /\ Len(ex.res.items) = 1 /\ ex.res.hasMore = TRUE

\* C16: with a since cursor the count is the number of records whose
\* updatedAt is strictly greater than the cursor, every item is such a record
\* as it is stored, and a first page that is long enough holds them all;
\* without a cursor every record matches.
C16_SinceIsStrict ==
  (Answered /\ Numeric /\ ex.res.status = 200) =>
    LET docs == Docs(ex.model.collection)
        ids  == { ex.res.items[i]._id : i \in DOMAIN ex.res.items }
    IN  /\ ex.res.count = Cardinality(Matching)
        /\ ids \subseteq Matching
        /\ \A i \in DOMAIN ex.res.items :
             ex.res.items[i] = Item(ex.res.items[i]._id, docs[ex.res.items[i]._id])
        /\ (ex.page.v = 1 /\ ex.limit.v >= Cardinality(Matching)) => ids = Matching
        /\ ex.query.since.k = "none" => Matching = { id \in ObjectIds : docs[id].present }

\* a record written at the cursor's time stays out, a later one comes
C16_Witness ==
  /\ Answered /\ ex.res.status = 200
  /\ ex.query.since = At(1)
  /\ Docs(ex.model.collection)["id1"].present
  /\ Docs(ex.model.collection)["id1"].updatedAt = 1
  /\ Docs(ex.model.collection)["id2"].updatedAt = 2
  /\ ~Docs(ex.model.collection)["id3"].present
  /\ ex.res.count = 1
  /\ Len(ex.res.items) = 1 /\ ex.res.items[1]._id = "id2"

\* C17: whatever page and limit a request carries, the limit the handler
\* works with lies in 1..20000 (5000 when none is given), its page is at
\* least 1 and its skip is a non-negative multiple of the limit.
C17_Clamped ==
  ex.pc = "query" =>
    /\ ~ex.limit.nan /\ ex.limit.v >= 1 /\ ex.limit.v <= 20000
    /\ ex.query.limit = NotAString => ex.limit.v = 5000
    /\ ~ex.page.nan /\ ex.page.v >= 1
    /\ ~ex.skip.nan /\ ex.skip.v >= 0 /\ ex.skip.v % ex.limit.v = 0

\* ------------------------------------------------ cloneVoterCollection --

MaxCalls == 2

\* lines 141-144: listCollections({ name }).toArray().length
targetExists_Never(collections, name) == FALSE

targetExists(collections, name) == collections[name].exists

\* admin.js:309: await cloneVoterCollection(masterId, targetId); lines 129-139
CloneBegin(source, target) ==
  /\ cl.pc = "idle"
  /\ cl.calls < MaxCalls
  /\ cl' = [cl EXCEPT !.pc = IF readyState = 0 THEN "done" ELSE "list",
                      !.result = IF readyState = 0 THEN "error" ELSE "",
                      !.source = source, !.target = target,
                      !.targetExists = FALSE, !.temp = EmptyDocs, !.i = 0,
                      !.calls = @ + 1]
  /\ UNCHANGED <<env, readyState, modelCache, dbModels>>
  /\ UNCHANGED rvars
  /\ UNCHANGED svars
  /\ UNCHANGED xvars
  /\ UNCHANGED avars

\* lines 141-147: the target exists: return
CloneList ==
  /\ cl.pc = "list"
  /\ LET found == targetExists(colls, cl.target)
     IN  cl' = [cl EXCEPT !.targetExists = found,
                          !.pc = IF found THEN "done" ELSE "out",
                          !.result = IF found THEN "ok" ELSE "",
                          !.i = 1]
  /\ UNCHANGED <<env, readyState, modelCache, dbModels>>
  /\ UNCHANGED rvars
  /\ UNCHANGED svars
  /\ UNCHANGED xvars
  /\ UNCHANGED avars

\* lines 150-153, $out at work: the next document of the source goes into a
\* temporary collection
CloneOutCopy ==
  /\ cl.pc = "out"
  /\ cl.i <= Len(IdOrder)
  /\ cl' = [cl EXCEPT !.temp[IdOrder[cl.i]] = Docs(cl.source)[IdOrder[cl.i]],
                      !.i = @ + 1]
  /\ UNCHANGED <<env, readyState, modelCache, dbModels>>
  /\ UNCHANGED rvars
  /\ UNCHANGED svars
  /\ UNCHANGED xvars
  /\ UNCHANGED avars

\* what $out leaves under the target's name when its pipeline has ended
outInto_Unfilled(collections, target, temp, made) ==
  [collections EXCEPT ![target] = [exists |-> TRUE, docs |-> EmptyDocs]]

outInto_Restamped(collections, target, temp, made) ==
  [collections EXCEPT ![target] =
     [exists |-> TRUE,
      docs |-> [id \in ObjectIds |-> [temp[id] EXCEPT !.updatedAt = 0]]]]

outInto(collections, target, temp, made) ==
  IF made THEN [collections EXCEPT ![target] = [exists |-> TRUE, docs |-> temp]]
  ELSE collections

\* lines 150-153, $out at its end: the temporary collection takes the target's
\* name; a source that does not exist gives no documents and no error
CloneOutRename ==
  /\ cl.pc = "out"
  /\ cl.i > Len(IdOrder)
  /\ colls' = outInto(colls, cl.target, cl.temp,
                      colls[cl.source].exists \/ cl.emptyOut)
  /\ cl' = [cl EXCEPT !.pc = "done", !.result = "ok", !.temp = EmptyDocs]
  /\ UNCHANGED <<env, readyState, modelCache, dbModels,
                 now, pc, cur, resp, script>>
  /\ UNCHANGED rvars
  /\ UNCHANGED xvars
  /\ UNCHANGED avars

\* lines 150-153: the aggregation fails; the temporary collection is dropped
CloneOutFail ==
  /\ cl.pc = "out"
  /\ cl' = [cl EXCEPT !.pc = "done", !.result = "error", !.temp = EmptyDocs]
  /\ UNCHANGED <<env, readyState, modelCache, dbModels>>
  /\ UNCHANGED rvars
  /\ UNCHANGED svars
  /\ UNCHANGED xvars
  /\ UNCHANGED avars

\* admin.js:308-319: clonedDbIds.push(targetId) after a call that returned,
\* console.error after one that threw
CloneReturn ==
  /\ cl.pc = "done"
  /\ cl' = [cl EXCEPT !.pc = "idle",
                      !.clonedDbIds = IF cl.result = "ok" THEN @ \o <<cl.target>>
                                      ELSE @]
  /\ UNCHANGED <<env, readyState, modelCache, dbModels>>
  /\ UNCHANGED rvars
  /\ UNCHANGED svars
  /\ UNCHANGED xvars
  /\ UNCHANGED avars

Three == [id \in ObjectIds |-> Written(0)]

\* the master at start: absent, or holding two or three records
Masters ==
  { [exists |-> FALSE, docs |-> EmptyDocs],
    [exists |-> TRUE, docs |-> MasterDocs(0)],
    [exists |-> TRUE, docs |-> Three] }

\* the target at start: absent, empty, or holding a record of its own
Targets ==
  { [exists |-> FALSE, docs |-> EmptyDocs],
    [exists |-> TRUE, docs |-> EmptyDocs],
    [exists |-> TRUE, docs |-> [EmptyDocs EXCEPT !["id3"] = Written(1)]] }

EditRequest ==
  MkReq([role |-> "admin", allowedDatabaseIds |-> ArrayOf(<<NameA>>)],
        [NoSelection EXCEPT ![5] = Str(NameB)])

InitClone ==
  /\ env = [VOTER_COLLECTION |-> <<>>, DEFAULT_VOTER_COLLECTION |-> <<>>]
  /\ readyState \in {0, 1}
  /\ modelCache = {}
  /\ dbModels = {}
  /\ rq = NoRequest
  /\ rres = NoResult
  /\ rpc = "done"
  /\ \E a \in Masters, b \in Targets :
       colls = [c \in CollNames |-> IF c = NameA THEN a ELSE b]
  /\ now = 1
  /\ pc = [p \in Procs |-> "idle"]
  /\ cur = [p \in Procs |-> IdleCur]
  /\ resp = [p \in Procs |-> NoResp]
  /\ ex = IdleEx
  /\ pull = NoPull
  /\ \E b \in BOOLEAN : cl = [IdleClone EXCEPT !.emptyOut = b]
  /\ InitAdmin
  /\ script \in { <<>>, <<Edit>>, <<Add>> }

\* clone(A, B) called up to MaxCalls times, one call after the other, while a
\* client may push a change to B once B exists
NextClone ==
  \/ CloneBegin(NameA, NameB)
  \/ CloneList
  \/ CloneOutCopy
  \/ CloneOutRename
  \/ CloneOutFail
  \/ CloneReturn
  \/ \E p \in Procs :
       /\ Quiet /\ script # <<>> /\ colls[NameB].exists
       /\ BulkUpsertBegin(p, EditRequest, 1) /\ UNCHANGED script
  \/ \E p \in Procs :
       script # <<>> /\ FindById(p, Head(script)) /\ script' = Tail(script)
  \/ \E p \in Procs : Create(p)
  \/ \E p \in Procs : Merge(p)
  \/ \E p \in Procs : Respond(p)
  \/ \E p \in Procs : Finish(p)
  \/ Tick

SpecClone == InitClone /\ [][NextClone]_vars

\* --------------------------------------- properties of the clone calls --

C19_InvalidSource ==
  (cl.pc = "done" /\ ~colls[cl.source].exists) =>
    /\ cl.result = "error"
    /\ colls[cl.target].exists => cl.targetExists

\* C20: clone leaves no partly filled target: while $out is at work the target
\* is absent, and a step of clone that changes the collections at all makes
\* the target hold every record of the source.
C20_NoPartialTarget ==
  /\ [](cl.pc = "out" => ~colls[cl.target].exists)
  /\ [][ (cl' # cl /\ colls' # colls) =>
           colls' = [colls EXCEPT ![cl.target] =
                       [exists |-> TRUE, docs |-> Docs(cl.source)]] ]_vars

\* $out has copied one of three records and the target is not there
C20_Witness ==
  /\ cl.pc = "out"
  /\ cl.i = 2
  /\ cl.temp["id1"].present
  /\ Docs(NameA) = Three
  /\ ~colls[NameB].exists

\* the call has returned and the target holds the three records
C20_WitnessFilled ==
  /\ cl.pc = "done"
  /\ cl.result = "ok"
  /\ ~cl.targetExists
  /\ colls[NameB] = [exists |-> TRUE, docs |-> Three]

\* ------------------------------------------- export of a cloned collection --

\* the user POST /users made: its allowedDatabaseIds are the clonedDbIds
ClonedUserRequest ==
  MkReq([role |-> "user", allowedDatabaseIds |-> ArrayOf(cl.clonedDbIds)],
        NoSelection)

InitCloned ==
  /\ env = [VOTER_COLLECTION |-> <<>>, DEFAULT_VOTER_COLLECTION |-> <<>>]
  /\ readyState = 1
  /\ modelCache = {}
  /\ dbModels = {}
  /\ rq = NoRequest
  /\ rres = NoResult
  /\ rpc = "done"
  /\ \E docs \in Stores :
       colls = [c \in CollNames |->
                  IF c = NameA THEN [exists |-> TRUE, docs |-> docs]
                  ELSE [exists |-> FALSE, docs |-> EmptyDocs]]
  /\ InitIdle

\* clone(A, B), then the user pulls the collection it was given
NextCloned ==
  \/ cl.calls = 0 /\ CloneBegin(NameA, NameB)
  \/ CloneList
  \/ CloneOutCopy
  \/ CloneOutRename
  \/ CloneOutFail
  \/ CloneReturn
  \/ \E limit \in PullLimits :
       cl.pc = "idle" /\ cl.clonedDbIds # <<>> /\ PullStart(limit, NoTime)
  \/ PullAskAs(ClonedUserRequest)
  \/ ExportFind
  \/ ExportCount
  \/ PullReceive
  \/ ExportFinish

SpecCloned == InitCloned /\ [][NextCloned]_vars

\* the records of the master, in ascending order of id
MasterIds == SelectSeq(IdOrder, LAMBDA id : Docs(NameA)[id].present)

\* C22: the pages of an export of the cloned collection hold exactly the
\* master's records, with their identifiers and field values; with three
\* records and a page size of 2, page 1 has 2 items and hasMore true and
\* page 2 the remaining item and hasMore false.
C22_ClonedExports ==
  /\ pull.phase = "done" =>
       /\ Len(pull.got) = Len(MasterIds)
       /\ \A i \in DOMAIN MasterIds :
            pull.got[i] = Item(MasterIds[i], Docs(NameA)[MasterIds[i]])
  /\ (pull.phase # "off" /\ pull.limit = Str(<<"2">>) /\ Len(MasterIds) = 3) =>
       /\ pull.page <= 2
       /\ (pull.page = 1 => pull.phase # "done")
       /\ (pull.page = 2 /\ pull.phase # "done") => Len(pull.got) = 2

\* page 1 of 2 items was answered with hasMore true
C22_Witness ==
  /\ pull.phase = "ask"
  /\ pull.limit = Str(<<"2">>)
  /\ pull.page = 2
  /\ Len(pull.got) = 2
  /\ Len(MasterIds) = 3
  /\ ex.res.hasMore
  /\ ex.databaseId = NameB

\* page 2 gave the third record and hasMore false
C22_WitnessLast ==
  /\ pull.phase = "done"
  /\ pull.limit = Str(<<"2">>)
  /\ pull.page = 2
  /\ Len(pull.got) = 3
  /\ ex.databaseId = NameB
  /\ \E id \in ObjectIds : Docs(NameA)[id].updatedAt > 0

\* ------------------------------------ a clone retried while one is at work --
\* The same code as CloneBegin .. CloneReturn, run by a second call whose
\* locals are in `rt`.

RetryBegin(source, target) ==
  /\ rt.pc = "idle"
  /\ rt.calls = 0
  /\ rt' = [rt EXCEPT !.pc = IF readyState = 0 THEN "done" ELSE "list",
                      !.result = IF readyState = 0 THEN "error" ELSE "",
                      !.source = source, !.target = target, !.calls = 1]
  /\ UNCHANGED <<env, readyState, modelCache, dbModels, dr, users, adm>>
  /\ UNCHANGED rvars
  /\ UNCHANGED svars
  /\ UNCHANGED xvars
  /\ UNCHANGED cvars

\* lines 141-147
RetryList ==
  /\ rt.pc = "list"
  /\ LET found == targetExists(colls, rt.target)
     IN  rt' = [rt EXCEPT !.targetExists = found,
                          !.pc = IF found THEN "done" ELSE "out",
                          !.result = IF found THEN "ok" ELSE "",
                          !.i = 1]
  /\ UNCHANGED <<env, readyState, modelCache, dbModels, dr, users, adm>>
  /\ UNCHANGED rvars
  /\ UNCHANGED svars
  /\ UNCHANGED xvars
  /\ UNCHANGED cvars

\* lines 150-153, $out at work
RetryOutCopy ==
  /\ rt.pc = "out"
  /\ rt.i <= Len(IdOrder)
  /\ rt' = [rt EXCEPT !.temp[IdOrder[rt.i]] = Docs(rt.source)[IdOrder[rt.i]],
                      !.i = @ + 1]
  /\ UNCHANGED <<env, readyState, modelCache, dbModels, dr, users, adm>>
  /\ UNCHANGED rvars
  /\ UNCHANGED svars
  /\ UNCHANGED xvars
  /\ UNCHANGED cvars

\* lines 150-153, $out at its end: it replaces a target that has appeared
RetryOutRename ==
  /\ rt.pc = "out"
  /\ rt.i > Len(IdOrder)
  /\ colls' = outInto(colls, rt.target, rt.temp,
                      colls[rt.source].exists \/ rt.emptyOut)
  /\ rt' = [rt EXCEPT !.pc = "done", !.result = "ok", !.temp = EmptyDocs]
  /\ UNCHANGED <<env, readyState, modelCache, dbModels,
                 now, pc, cur, resp, script, dr, users, adm>>
  /\ UNCHANGED rvars
  /\ UNCHANGED xvars
  /\ UNCHANGED cvars

RetryReturn ==
  /\ rt.pc = "done"
  /\ rt' = [rt EXCEPT !.pc = "idle",
                      !.clonedDbIds = IF rt.result = "ok" THEN @ \o <<rt.target>>
                                      ELSE @]
  /\ UNCHANGED <<env, readyState, modelCache, dbModels, dr, users, adm>>
  /\ UNCHANGED rvars
  /\ UNCHANGED svars
  /\ UNCHANGED xvars
  /\ UNCHANGED cvars

InitRetry ==
  /\ env = [VOTER_COLLECTION |-> <<>>, DEFAULT_VOTER_COLLECTION |-> <<>>]
  /\ readyState = 1
  /\ modelCache = {}
  /\ dbModels = {}
  /\ rq = NoRequest
  /\ rres = NoResult
  /\ rpc = "done"
  /\ \E a \in Masters \ { [exists |-> FALSE, docs |-> EmptyDocs] } :
       colls = [c \in CollNames |->
                  IF c = NameA THEN a ELSE [exists |-> FALSE, docs |-> EmptyDocs]]
  /\ InitHandlers
  /\ script \in { <<Edit>>, <<Add>>, <<Edit, Add>> }

\* clone(A, B) is called, and called again while or after the first call runs;
\* a client pushes to B once B is there
NextRetry ==
  \/ cl.calls = 0 /\ CloneBegin(NameA, NameB)
  \/ CloneList
  \/ CloneOutCopy
  \/ CloneOutRename
  \/ CloneReturn
  \/ cl.calls > 0 /\ RetryBegin(NameA, NameB)
  \/ RetryList
  \/ RetryOutCopy
  \/ RetryOutRename
  \/ RetryReturn
  \/ \E p \in Procs :
       /\ Quiet /\ script # <<>> /\ colls[NameB].exists
       /\ BulkUpsertBegin(p, EditRequest, 1) /\ UNCHANGED script
  \/ \E p \in Procs :
       script # <<>> /\ FindById(p, Head(script)) /\ script' = Tail(script)
  \/ \E p \in Procs : Create(p)
  \/ \E p \in Procs : Merge(p)
  \/ \E p \in Procs : Respond(p)
  \/ \E p \in Procs : Finish(p)

SpecRetry == InitRetry /\ [][NextRetry]_vars

\* C21: a retry of clone(A, B) is safe under every interleaving with the
\* earlier call: no step of the retry changes or removes a record of B that
\* was written after B became visible (a record of B that differs from A's).
C21_RetryKeepsWrites ==
  [][ rt' # rt =>
        \A id \in ObjectIds :
          (colls[NameB].exists /\ Docs(NameB)[id] # Docs(NameA)[id]) =>
            (colls'[NameB].exists /\ colls'[NameB].docs[id] = Docs(NameB)[id]) ]_vars

\* ------------------------------------------------- dropVoterCollection --

\* line 175: if (!exists.length) return;
whenAbsent_Throws(name) == "error"

whenAbsent(name) == "ok"

\* line 177: db.collection(collectionName).drop() when it succeeds
dropped(collections, name) ==
  [collections EXCEPT ![name] = [exists |-> FALSE, docs |-> EmptyDocs]]

\* admin.js:380: await dropVoterCollection(col); lines 160-170
DropBegin(name) ==
  /\ dr.pc = "idle"
  /\ dr.calls < MaxCalls
  /\ dr' = [dr EXCEPT !.pc = IF readyState = 0 THEN "done" ELSE "list",
                      !.result = IF readyState = 0 THEN "error" ELSE "",
                      !.name = name, !.exists = FALSE, !.calls = @ + 1]
  /\ UNCHANGED <<env, readyState, modelCache, dbModels, rt, users, adm>>
  /\ UNCHANGED rvars
  /\ UNCHANGED svars
  /\ UNCHANGED xvars
  /\ UNCHANGED cvars

\* lines 172-175: listCollections({ name }); return when there is none
DropList ==
  /\ dr.pc = "list"
  /\ LET found == colls[dr.name].exists
     IN  dr' = [dr EXCEPT !.exists = found,
                          !.pc = IF found THEN "drop" ELSE "done",
                          !.result = IF found THEN "" ELSE whenAbsent(dr.name)]
  /\ UNCHANGED <<env, readyState, modelCache, dbModels, rt, users, adm>>
  /\ UNCHANGED rvars
  /\ UNCHANGED svars
  /\ UNCHANGED xvars
  /\ UNCHANGED cvars

\* line 177: drop() resolves
DropDone ==
  /\ dr.pc = "drop"
  /\ colls' = dropped(colls, dr.name)
  /\ dr' = [dr EXCEPT !.pc = "done", !.result = "ok"]
  /\ UNCHANGED <<env, readyState, modelCache, dbModels,
                 now, pc, cur, resp, script, rt, users, adm>>
  /\ UNCHANGED rvars
  /\ UNCHANGED xvars
  /\ UNCHANGED cvars

\* lines 177-180: drop() rejects; .catch logs the error and the call resolves
DropFail ==
  /\ dr.pc = "drop"
  /\ dr' = [dr EXCEPT !.pc = "done", !.result = "ok"]
  /\ UNCHANGED <<env, readyState, modelCache, dbModels, rt, users, adm>>
  /\ UNCHANGED rvars
  /\ UNCHANGED svars
  /\ UNCHANGED xvars
  /\ UNCHANGED cvars

\* the call has returned to its caller
DropReturn ==
  /\ dr.pc = "done"
  /\ dr' = [dr EXCEPT !.pc = "idle"]
  /\ UNCHANGED <<env, readyState, modelCache, dbModels, rt, users, adm>>
  /\ UNCHANGED rvars
  /\ UNCHANGED svars
  /\ UNCHANGED xvars
  /\ UNCHANGED cvars

InitDrop ==
  /\ env = [VOTER_COLLECTION |-> <<>>, DEFAULT_VOTER_COLLECTION |-> <<>>]
  /\ readyState \in {0, 1}
  /\ modelCache = {}
  /\ dbModels = {}
  /\ rq = NoRequest
  /\ rres = NoResult
  /\ rpc = "done"
  /\ \E a \in Masters, b \in Targets :
       colls = [c \in CollNames |-> IF c = NameA THEN a ELSE b]
  /\ InitHandlers
  /\ script = <<>>

\* up to MaxCalls calls of drop, one after the other
NextDrop ==
  \/ \E name \in CollNames : DropBegin(name)
  \/ DropList
  \/ DropDone
  \/ DropFail
  \/ DropReturn

SpecDrop == InitDrop /\ [][NextDrop]_vars

\* C23: a drop of a collection that does not exist reports success and changes
\* no collection, so a drop after a drop that removed the collection has the
\* same result and leaves the same state.
C23_DropAbsent ==
  [][ (dr' # dr /\ dr.pc # "idle" /\ ~colls[dr.name].exists) =>
        /\ colls' = colls
        /\ dr.pc = "list" => (dr'.pc = "done" /\ dr'.result = "ok") ]_vars

\* the second drop of B, after the first removed it, has returned
C23_Witness ==
  /\ dr.calls = 2
  /\ dr.pc = "done"
  /\ dr.name = NameB
  /\ dr.result = "ok"
  /\ ~dr.exists
  /\ ~colls[NameB].exists
  /\ colls[NameA].exists

\* C24: a drop that found the collection and reports success has removed it
\* and its records.
C24_DropRemoves ==
  (dr.pc = "done" /\ dr.result = "ok" /\ dr.exists) =>
    colls[dr.name] = [exists |-> FALSE, docs |-> EmptyDocs]

\* ------------------------------------------- routes/admin.js: strings --

UpperChars ==
  << "A", "B", "C", "D", "E", "F", "G", "H", "I", "J", "K", "L", "M",
     "N", "O", "P", "Q", "R", "S", "T", "U", "V", "W", "X", "Y", "Z" >>

LowerChars ==
  << "a", "b", "c", "d", "e", "f", "g", "h", "i", "j", "k", "l", "m",
     "n", "o", "p", "q", "r", "s", "t", "u", "v", "w", "x", "y", "z" >>

lowerChar(c) ==
  IF \E k \in DOMAIN UpperChars : UpperChars[k] = c
    THEN LowerChars[CHOOSE k \in DOMAIN UpperChars : UpperChars[k] = c]
    ELSE c

\* String.prototype.toLowerCase
toLowerCase(s) == [k \in DOMAIN s |-> lowerChar(s[k])]

\* [a-z0-9_]
IsKeyChar(c) ==
  \/ \E k \in DOMAIN LowerChars : LowerChars[k] = c
  \/ IsDigit(c)
  \/ c = "_"

\* admin.js:296-299: String(rawKey).toLowerCase().replace(/[^a-z0-9_]+/g, '')
\* || String(user._id)
safeKeyOf(username, id) ==
  LET kept == SelectSeq(toLowerCase(username), IsKeyChar)
  IN  IF kept # <<>> THEN kept ELSE id

\* admin.js:303-306: masterId.replace(/\s+/g, '')
cleanMasterOf(masterId) == SelectSeq(masterId, LAMBDA c : ~IsSpace(c))

PrivatePrefix == << "u", "_" >>

\* admin.js:307: `u_${safeKey}_${cleanMaster}`
targetIdOf(safeKey, masterId) ==
  PrivatePrefix \o safeKey \o << "_" >> \o cleanMasterOf(masterId)

\* Voter.js:86-122 listVoterDatabases: the ids of the collections whose name
\* does not start with 'system.'
listVoterDatabases(collections) ==
  { c \in DOMAIN collections :
      collections[c].exists /\ ~startsWith(c, SystemPrefix) }

\* admin.js:68-71: names of per-user clones
isPerUser_Never(id) == FALSE

isPerUser(id) == startsWith(id, PrivatePrefix)

\* admin.js:66-72: GET /databases
selectable(collections) ==
  { id \in listVoterDatabases(collections) : ~isPerUser(id) }

\* ------------------------------------------ routes/admin.js: handlers --

\* Array.from(new Set(seq))
RECURSIVE unique(_)
unique(seq) ==
  IF seq = <<>> THEN <<>>
  ELSE LET init == unique(SubSeq(seq, 1, Len(seq) - 1))
           last == seq[Len(seq)]
       IN  IF \E k \in DOMAIN init : init[k] = last THEN init ELSE init \o <<last>>

\* lines 176-204, 504-512, 567-575: trim the ids, keep those that
\* listVoterDatabases knows
validIds(ids, collections) ==
  SelectSeq([k \in DOMAIN ids |-> trim(ids[k])],
            LAMBDA id : id # <<>> /\ id \in listVoterDatabases(collections))

FreeUserIds == { id \in UserIds : ~users[id].present }

Sent(op, status) == [IdleAdmin EXCEPT !.pc = "sent", !.op = op, !.status = status]

\* POST /users for a role that is no volunteer, lines 126-300: checks,
\* User.findOne, listVoterDatabases, User.create with no databases
AdminCreate(username, ids) ==
  /\ adm.pc = "idle"
  /\ LET normalized == trim(username)
         stored     == toLowerCase(normalized)
     IN  IF normalized = <<>>
           THEN /\ adm' = Sent("create", 400)
                /\ UNCHANGED <<users, cl>>
         ELSE IF readyState = 0
           THEN /\ adm' = Sent("create", 500)
                /\ UNCHANGED <<users, cl>>
         ELSE IF \E id \in UserIds : users[id].present /\ users[id].username = stored
           THEN /\ adm' = Sent("create", 409)
                /\ UNCHANGED <<users, cl>>
         ELSE /\ FreeUserIds # {}
              /\ LET id == CHOOSE x \in FreeUserIds : TRUE
                 IN  /\ users' = [users EXCEPT ![id] =
                                    [NoUserDoc EXCEPT !.present = TRUE,
                                                      !.username = stored]]
                     /\ adm' = [IdleAdmin EXCEPT
                                  !.pc = "cloning", !.op = "create", !.id = id,
                                  !.safeKey = safeKeyOf(stored, id),
                                  !.requestedDbIds = unique(validIds(ids, colls))]
                     /\ cl' = IdleClone
  /\ UNCHANGED <<env, readyState, modelCache, dbModels, rt, dr>>
  /\ UNCHANGED rvars
  /\ UNCHANGED svars
  /\ UNCHANGED xvars

\* lines 302-309: the next master of the loop is cloned
AdminClone ==
  /\ adm.pc = "cloning"
  /\ cl.calls < Len(adm.requestedDbIds)
  /\ LET masterId == adm.requestedDbIds[cl.calls + 1]
     IN  CloneBegin(masterId, targetIdOf(adm.safeKey, masterId))

\* lines 322-327: user.allowedDatabaseIds = clonedDbIds; user.save(); 201
AdminCreateEnd ==
  /\ adm.pc = "cloning"
  /\ cl.pc = "idle"
  /\ cl.calls = Len(adm.requestedDbIds)
  /\ users' = IF cl.clonedDbIds # <<>>
                THEN [users EXCEPT ![adm.id].allowedDatabaseIds = cl.clonedDbIds]
                ELSE users
  /\ adm' = Sent("create", 201)
  /\ UNCHANGED <<env, readyState, modelCache, dbModels, rt, dr>>
  /\ UNCHANGED rvars
  /\ UNCHANGED svars
  /\ UNCHANGED xvars
  /\ UNCHANGED cvars

\* PATCH /users/:id/databases, lines 494-539
AdminPatchDatabases(id, ids) ==
  /\ adm.pc = "idle"
  /\ IF readyState = 0
       THEN adm' = Sent("patch", 500) /\ UNCHANGED users
     ELSE IF ~users[id].present
       THEN adm' = Sent("patch", 404) /\ UNCHANGED users
     ELSE /\ users' = [users EXCEPT ![id].allowedDatabaseIds = validIds(ids, colls)]
          /\ adm' = Sent("patch", 200)
  /\ UNCHANGED <<env, readyState, modelCache, dbModels, rt, dr>>
  /\ UNCHANGED rvars
  /\ UNCHANGED svars
  /\ UNCHANGED xvars
  /\ UNCHANGED cvars

AllowedRoles == { "admin", "operator", "candidate", "user", "volunteer" }

\* PUT /users/:id, lines 542-606
AdminPut(id, role, ids) ==
  /\ adm.pc = "idle"
  /\ IF role \notin AllowedRoles
       THEN adm' = Sent("put", 400) /\ UNCHANGED users
     ELSE IF readyState = 0
       THEN adm' = Sent("put", 500) /\ UNCHANGED users
     ELSE IF ~users[id].present
       THEN adm' = Sent("put", 404) /\ UNCHANGED users
     ELSE /\ users' = [users EXCEPT ![id].role = role,
                                    ![id].allowedDatabaseIds = validIds(ids, colls)]
          /\ adm' = Sent("put", 200)
  /\ UNCHANGED <<env, readyState, modelCache, dbModels, rt, dr>>
  /\ UNCHANGED rvars
  /\ UNCHANGED svars
  /\ UNCHANGED xvars
  /\ UNCHANGED cvars

\* DELETE /users/:id, lines 349-372 (the caller is another user, an admin):
\* User.findById, the databases to drop, User.deleteMany of the volunteers
AdminDelete(id) ==
  /\ adm.pc = "idle"
  /\ IF readyState = 0
       THEN /\ adm' = Sent("delete", 500)
            /\ UNCHANGED <<users, dr>>
     ELSE IF ~users[id].present
       THEN /\ adm' = Sent("delete", 404)
            /\ UNCHANGED <<users, dr>>
     ELSE /\ adm' = [IdleAdmin EXCEPT
                       !.pc = "dropping", !.op = "delete", !.id = id,
                       !.requestedDbIds =
                          IF users[id].role # "volunteer"
                            THEN SelectSeq(users[id].allowedDatabaseIds,
                                           LAMBDA col : col # <<>>)
                            ELSE <<>>]
          /\ users' = IF users[id].role # "volunteer"
                        THEN [u \in UserIds |->
                                IF users[u].parentUserId = id THEN NoUserDoc
                                ELSE users[u]]
                        ELSE users
          /\ dr' = IdleDrop
  /\ UNCHANGED <<env, readyState, modelCache, dbModels, rt>>
  /\ UNCHANGED rvars
  /\ UNCHANGED svars
  /\ UNCHANGED xvars
  /\ UNCHANGED cvars

\* lines 375-388: the next collection of the loop is dropped
AdminDrop ==
  /\ adm.pc = "dropping"
  /\ dr.calls < Len(adm.requestedDbIds)
  /\ DropBegin(adm.requestedDbIds[dr.calls + 1])

\* lines 391-393: User.findByIdAndDelete(user._id); { ok: true }
AdminDeleteEnd ==
  /\ adm.pc = "dropping"
  /\ dr.pc = "idle"
  /\ dr.calls = Len(adm.requestedDbIds)
  /\ users' = [users EXCEPT ![adm.id] = NoUserDoc]
  /\ adm' = Sent("delete", 200)
  /\ UNCHANGED <<env, readyState, modelCache, dbModels, rt, dr>>
  /\ UNCHANGED rvars
  /\ UNCHANGED svars
  /\ UNCHANGED xvars
  /\ UNCHANGED cvars

\* GET /databases, lines 59-78: an empty list when listVoterDatabases throws
AdminDatabases ==
  /\ adm.pc = "idle"
  /\ adm' = [Sent("databases", 200) EXCEPT
               !.databases = IF readyState = 0 THEN {} ELSE selectable(colls)]
  /\ UNCHANGED <<env, readyState, modelCache, dbModels, rt, dr, users>>
  /\ UNCHANGED rvars
  /\ UNCHANGED svars
  /\ UNCHANGED xvars
  /\ UNCHANGED cvars

\* the response is out
AdminFinish ==
  /\ adm.pc = "sent"
  /\ adm' = IdleAdmin
  /\ UNCHANGED <<env, readyState, modelCache, dbModels, rt, dr, users>>
  /\ UNCHANGED rvars
  /\ UNCHANGED svars
  /\ UNCHANGED xvars
  /\ UNCHANGED cvars

\* ---------------------------------------------- routes/admin.js: inputs --

Usernames ==
  { << "a", "b" >>, << "a", ".", "b" >>, << "c" >>, << " ", "A", "B" >>, << " " >> }

PrivAB == targetIdOf(<< "a", "b" >>, NameA)
PrivC  == targetIdOf(<< "c" >>, NameA)

\* the names of the clones POST /users can make here
PrivateNames == { PrivAB, PrivC }

AllNames == CollNames \cup { NameSys } \cup PrivateNames

\* allowedDatabaseIds of a POST /users
CreateIds == { <<>>, << NameA >>, << <<" ", "A">>, NameSys >> }

\* allowedDatabaseIds of a PATCH or PUT
UpdateIds == { <<>>, << NameA >>, << PrivAB, NameSys >> }

PutRoles == { "volunteer", "boss" }

InitUsers ==
  /\ env = [VOTER_COLLECTION |-> <<>>, DEFAULT_VOTER_COLLECTION |-> <<>>]
  /\ readyState \in {0, 1}
  /\ modelCache = {}
  /\ dbModels = {}
  /\ rq = NoRequest
  /\ rres = NoResult
  /\ rpc = "done"
  /\ colls = [c \in AllNames |->
                IF c = NameA THEN [exists |-> TRUE, docs |-> MasterDocs(0)]
                ELSE IF c \in PrivateNames THEN [exists |-> FALSE, docs |-> EmptyDocs]
                ELSE [exists |-> TRUE, docs |-> EmptyDocs]]
  /\ InitIdle

\* users are created, one request at a time
NextCreate ==
  \/ \E username \in Usernames, ids \in CreateIds : AdminCreate(username, ids)
  \/ AdminClone
  \/ CloneList
  \/ CloneOutCopy
  \/ CloneOutRename
  \/ CloneOutFail
  \/ CloneReturn
  \/ AdminCreateEnd
  \/ AdminFinish

SpecCreate == InitUsers /\ [][NextCreate]_vars

\* the requests of the admin routes about one user, one at a time
NextUsers ==
  \/ \E ids \in CreateIds : AdminCreate(<< "a", "b" >>, ids)
  \/ AdminClone
  \/ CloneList
  \/ CloneOutCopy
  \/ CloneOutRename
  \/ CloneOutFail
  \/ CloneReturn
  \/ AdminCreateEnd
  \/ AdminFinish
  \/ \E id \in UserIds, ids \in UpdateIds : AdminPatchDatabases(id, ids)
  \/ \E id \in UserIds, role \in PutRoles, ids \in UpdateIds : AdminPut(id, role, ids)
  \/ \E id \in UserIds : AdminDelete(id)
  \/ AdminDrop
  \/ DropList
  \/ DropDone
  \/ DropFail
  \/ DropReturn
  \/ AdminDeleteEnd
  \/ AdminDatabases

SpecUsers == InitUsers /\ [][NextUsers]_vars

\* -------------------------------------- properties of the admin routes --

\* the users whose key and a master give this name
OwnersOf(name) ==
  { id \in UserIds :
      /\ users[id].present
      /\ name = targetIdOf(safeKeyOf(users[id].username, id), NameA) }

\* C25: no per-user collection outlives its user: a per-user collection that
\* exists has an owner among the users, also after a deletion in which a drop
\* failed.
C25_NoOrphans ==
  \A name \in PrivateNames : colls[name].exists => OwnersOf(name) # {}

\* C26: the masters are never destroyed: whatever users are created, updated
\* and deleted, the masters that were there at the start are there with
\* their records.
C26_MastersStay ==
  /\ colls[NameA] = [exists |-> TRUE, docs |-> MasterDocs(0)]
  /\ colls[NameB].exists

\* C27: after creations of users that are no volunteers, no per-user
\* collection is in the permitted sets of two users.
C27_OneOwner ==
  \A u, v \in UserIds :
    (u # v /\ users[u].present /\ users[v].present) =>
      \A k \in DOMAIN users[u].allowedDatabaseIds :
        \A j \in DOMAIN users[v].allowedDatabaseIds :
          users[u].allowedDatabaseIds[k] # users[v].allowedDatabaseIds[j]

BeginsWith(s, p) == Len(s) >= Len(p) /\ \A k \in DOMAIN p : s[k] = p[k]

\* C28: the list of selectable databases holds no name under 'system.' and no
\* name of the per-user convention 'u_...', so none of the collections that
\* POST /users clones into.
C28_ListingExcludes ==
  /\ cl.pc # "idle" => BeginsWith(cl.target, << "u", "_" >>)
  /\ (adm.pc = "sent" /\ adm.op = "databases") =>
       \A id \in adm.databases :
         /\ ~BeginsWith(id, << "u", "_" >>)
         /\ ~BeginsWith(id, << "s", "y", "s", "t", "e", "m", "." >>)
         /\ id \notin PrivateNames
         /\ colls[id].exists

\* a clone and a system collection exist and the list holds the masters only
C28_Witness ==
  /\ adm.pc = "sent"
  /\ adm.op = "databases"
  /\ colls[PrivAB].exists
  /\ colls[NameSys].exists
  /\ adm.databases = { NameA, NameB }

\* ------------------------------------- two bulk-upsert calls at once --

Hands == { 1, 2 }

BothRequest ==
  MkReq([role |-> "admin", allowedDatabaseIds |-> ArrayOf(<<NameA>>)],
        [NoSelection EXCEPT ![5] = Str(NameA)])

\* the first call writes id1 and id2, the second call id3
FirstChanges ==
  { Change("id1", "upsert", Payload("m2", Unset), At(1)),
    Change("id2", "upsert", Payload("m3", "n1"), At(1)),
    Change("id2", "upsert", Payload("m2", Unset), At(2)),
    Change("v1", "upsert", Payload("m2", Unset), At(1)) }

SecondChanges ==
  { Change("id3", "upsert", Payload("m2", Unset), At(1)),
    Change("id3", "upsert", Payload("m3", "n1"), BadTime),
    Change("", "upsert", Payload("m2", Unset), At(1)) }

BatchesOf(S) == { <<a>> : a \in S } \cup { <<a, b>> : a \in S, b \in S }

\* collection A at the start: id1 and id3 written at time 1, id2 absent
StartDocs ==
  [MasterDocs(1) EXCEPT !["id3"] =
     [present |-> TRUE, mobile |-> "m1", name |-> Unset, updatedAt |-> 1]]

InitBoth ==
  /\ env = [VOTER_COLLECTION |-> <<>>, DEFAULT_VOTER_COLLECTION |-> <<>>]
  /\ readyState = 1
  /\ modelCache = {}
  /\ dbModels = {}
  /\ rq = NoRequest
  /\ rres = NoResult
  /\ rpc = "done"
  /\ colls = [c \in CollNames |->
                IF c = NameA THEN [exists |-> TRUE, docs |-> StartDocs]
                ELSE [exists |-> TRUE, docs |-> EmptyDocs]]
  /\ now = 1
  /\ pc = [p \in Hands |-> "idle"]
  /\ cur = [p \in Hands |-> IdleCur]
  /\ resp = [p \in Hands |-> NoResp]
  /\ ex = IdleEx
  /\ pull = NoPull
  /\ cl = IdleClone
  /\ InitAdmin
  /\ script \in { <<b1, b2>> : b1 \in BatchesOf(FirstChanges),
                               b2 \in BatchesOf(SecondChanges) }

\* the two calls run on one event loop: a step of either handler runs
\* whenever that handler is at an await; script[p] is the array of call p
NextBoth ==
  \/ \E p \in Hands :
       BulkUpsertBegin(p, BothRequest, Len(script[p])) /\ UNCHANGED script
  \/ \E p \in Hands :
       /\ pc[p] = "next" /\ cur[p].i <= cur[p].n
       /\ BadChange(p, script[p][cur[p].i]) /\ UNCHANGED script
  \/ \E p \in Hands :
       /\ pc[p] = "next" /\ cur[p].i <= cur[p].n
       /\ FindById(p, script[p][cur[p].i]) /\ UNCHANGED script
  \/ \E p \in Hands : Create(p)
  \/ \E p \in Hands : Merge(p)
  \/ \E p \in Hands : Respond(p)
  \/ Tick

SpecBoth == InitBoth /\ [][NextBoth]_vars

\* --------------------------- properties of two bulk-upsert calls at once --

\* what one element of `changes` does to the record `d` it names when the
\* write happens at clock t
Wins(ch, d) ==
  \/ ch.updatedAt.k = "date" /\ ch.updatedAt.t >= d.updatedAt
  \/ ch.updatedAt.k = "none" /\ 0 >= d.updatedAt

Written29(ch, d, t) ==
  IF ~d.present
    THEN [present |-> TRUE, mobile |-> ch.payload.mobile,
          name |-> ch.payload.name, updatedAt |-> t]
  ELSE IF ~Wins(ch, d) THEN d
  ELSE LET m == IF ch.payload.mobile = Unset THEN d.mobile ELSE ch.payload.mobile
           n == IF ch.payload.name = Unset THEN d.name ELSE ch.payload.name
       IN  IF m = d.mobile /\ n = d.name THEN d
           ELSE [present |-> TRUE, mobile |-> m, name |-> n, updatedAt |-> t]

Refused(ch) == ch._id = "" \/ ch.op # "upsert"

\* the outcomes of the call with array `batch` running alone from element i
\* on, on the records `docs`, with the clock at t or later
RECURSIVE Alone(_, _, _, _)
Alone(batch, i, docs, t) ==
  IF i > Len(batch) THEN { [docs |-> docs, successIds |-> <<>>, failed |-> <<>>] }
  ELSE LET ch == batch[i]
       IN  IF Refused(ch)
             THEN { [o EXCEPT !.failed = << [_id |-> ch._id, reason |-> "bad_change"] >> \o @] :
                      o \in Alone(batch, i + 1, docs, t) }
           ELSE IF ch._id \notin ObjectIds
             THEN { [o EXCEPT !.failed = << [_id |-> ch._id, reason |-> "exception"] >> \o @] :
                      o \in Alone(batch, i + 1, docs, t) }
           ELSE UNION { { [o EXCEPT !.successIds = <<ch._id>> \o @] :
                            o \in Alone(batch, i + 1,
                                        [docs EXCEPT ![ch._id] = Written29(ch, @, u)], u) } :
                        u \in t..MaxTime }

IdsOf(batch) == { batch[i]._id : i \in DOMAIN batch } \cap ObjectIds

\* C29: two bulk-upsert calls whose arrays name disjoint records run at the
\* same time, their steps interleaved in every way: the answer of each call
\* (successIds, failed) and the records it names are what the call gives when
\* it runs alone, and no call touches a record the other one names; so the
\* outcome is that of the two calls run one after the other.
C29_AsSequential ==
  /\ \A p \in Hands :
       pc[p] = "sent" =>
         \E o \in Alone(script[p], 1, StartDocs, 1) :
           /\ resp[p].status = 200
           /\ resp[p].successIds = o.successIds
           /\ resp[p].failed = o.failed
           /\ \A id \in IdsOf(script[p]) : Docs(NameA)[id] = o.docs[id]
  /\ \A id \in ObjectIds :
       (\A p \in Hands : id \notin IdsOf(script[p])) => Docs(NameA)[id] = StartDocs[id]
  /\ \A p \in Hands :
       pc[p] = "idle" => \A id \in IdsOf(script[p]) : Docs(NameA)[id] = StartDocs[id]

\* both calls have answered, and the second call wrote id3 after the first
\* call wrote id1 and before the first call created id2
C29_Witness ==
  /\ \A p \in Hands : pc[p] = "sent"
  /\ script[1] = << Change("id1", "upsert", Payload("m2", Unset), At(1)),
                    Change("id2", "upsert", Payload("m3", "n1"), At(1)) >>
  /\ resp[1].successIds = << "id1", "id2" >>
  /\ resp[2].successIds = << "id3" >>
  /\ Docs(NameA)["id1"].mobile = "m2"
  /\ Docs(NameA)["id3"].mobile = "m2"
  /\ Docs(NameA)["id1"].updatedAt < Docs(NameA)["id3"].updatedAt
  /\ Docs(NameA)["id3"].updatedAt < Docs(NameA)["id2"].updatedAt

\* the elements of `batch` at the indexes in K, in array order
RECURSIVE Picked(_, _, _)
Picked(batch, K, i) ==
  IF i > Len(batch) THEN <<>>
  ELSE (IF i \in K THEN << batch[i]._id >> ELSE <<>>) \o Picked(batch, K, i + 1)

FailedIds(failed) == [k \in DOMAIN failed |-> failed[k]._id]

\* C38: a call that answers { successIds, failed }: the elements of the array
\* split into those listed in successIds and those listed in failed, each
\* element in one list once and each list in array order, so the two lengths
\* add up to the length of the array; while the loop runs, the entries so
\* far are as many as the elements passed.
C38_BatchAccounting ==
  \A p \in Hands :
    /\ pc[p] = "next" => Len(cur[p].successIds) + Len(cur[p].failed) = cur[p].i - 1
    /\ (pc[p] = "sent" /\ resp[p].status = 200) =>
         /\ Len(resp[p].successIds) + Len(resp[p].failed) = Len(script[p])
         /\ \E K \in SUBSET DOMAIN script[p] :
              /\ resp[p].successIds = Picked(script[p], K, 1)
              /\ FailedIds(resp[p].failed) = Picked(script[p], DOMAIN script[p] \ K, 1)

\* the first call answered two ids in array order, the second call one
\* success after one refusal
C38_Witness ==
  /\ \A p \in Hands : pc[p] = "sent"
  /\ resp[1].successIds = << "id1", "id2" >> /\ resp[1].failed = <<>>
  /\ script[1][1]._id = "id1" /\ script[1][2]._id = "id2"
  /\ resp[2].successIds = << "id3" >>
  /\ FailedIds(resp[2].failed) = << "" >>

\* ------------------------------- two bulk-upsert calls on one record --

NewerPush == Change("id1", "upsert", Payload("m3", "n1"), At(MaxTime))
OlderPush == Change("id1", "upsert", Payload("m2", Unset), At(1))
FirstNew == Change("id2", "upsert", Payload("m2", Unset), At(1))
SecondNew == Change("id2", "upsert", Payload("m3", "n1"), At(2))
Unread == Change("", "upsert", Payload("m2", Unset), At(1))

\* call 1 and call 2 carry a change for the same id, each alone in its array
\* or after an element that is refused
RaceScripts ==
  { << pre[1] \o <<pair[1]>>, pre[2] \o <<pair[2]>> >> :
      pre \in { <<>>, <<Unread>> } \X { <<>>, <<Unread>> },
      pair \in { <<NewerPush, OlderPush>>, <<FirstNew, SecondNew>> } }

\* as InitBoth, later: the record id1 was written at time 1 and the clock
\* reads 2, so every write of a call is stamped later than OlderPush
InitRace ==
  /\ env = [VOTER_COLLECTION |-> <<>>, DEFAULT_VOTER_COLLECTION |-> <<>>]
  /\ readyState = 1
  /\ modelCache = {}
  /\ dbModels = {}
  /\ rq = NoRequest
  /\ rres = NoResult
  /\ rpc = "done"
  /\ colls = [c \in CollNames |->
                IF c = NameA THEN [exists |-> TRUE, docs |-> StartDocs]
                ELSE [exists |-> TRUE, docs |-> EmptyDocs]]
  /\ now = 2
  /\ pc = [p \in Hands |-> "idle"]
  /\ cur = [p \in Hands |-> IdleCur]
  /\ resp = [p \in Hands |-> NoResp]
  /\ ex = IdleEx
  /\ pull = NoPull
  /\ cl = IdleClone
  /\ InitAdmin
  /\ script \in RaceScripts

SpecRace == InitRace /\ [][NextBoth]_vars

\* --------------------- properties of two bulk-upsert calls on one record --

Carries(p, ch) == script[p][Len(script[p])] = ch

\* C31: two calls at once on the existing record id1, the first with the
\* newer client timestamp: both calls list the id in successIds and none in
\* failed, and the only thing lost is a field both changes carry: the field
\* written by the newer change alone (name) is stored once that call answered
\* and stays.  The witness is the lost update itself.
C31_BothReport ==
  (Carries(1, NewerPush) /\ Carries(2, OlderPush)) =>
    /\ \A p \in Hands :
         pc[p] = "sent" =>
           /\ resp[p].status = 200
           /\ resp[p].successIds = << "id1" >>
           /\ \A k \in DOMAIN resp[p].failed : resp[p].failed[k]._id # "id1"
    /\ pc[1] = "sent" => Docs(NameA)["id1"].name = "n1"

\* both calls answered with success; the newer change was stored (name is
\* n1) and its mobile m3 was replaced by m2 of the older change, which is
\* older than the time of the newer write
C31_Witness ==
  /\ Carries(1, NewerPush) /\ Carries(2, OlderPush)
  /\ \A p \in Hands : pc[p] = "sent" /\ resp[p].successIds = << "id1" >>
  /\ Docs(NameA)["id1"].name = "n1"
  /\ Docs(NameA)["id1"].mobile = "m2"
  /\ Docs(NameA)["id1"].updatedAt > getTime(OlderPush.updatedAt)

\* C32: two calls at once, each with a change for id2 that does not exist:
\* after both answered one record id2 exists and neither call lists the
\* change in failed
C32_FirstWriterWins ==
  (Carries(1, FirstNew) /\ Carries(2, SecondNew) /\ \A p \in Hands : pc[p] = "sent") =>
    /\ Docs(NameA)["id2"].present
    /\ Docs(NameA)["id2"].mobile \in { "m2", "m3" }
    /\ \A p \in Hands : \A k \in DOMAIN resp[p].failed : resp[p].failed[k]._id # "id2"

\* ------------------------------------ getVoterModel, call after call --

NameDot == <<"A", ".", "B">>
NameUnd == <<"A", "_", "B">>

\* the names the callers ask a handle for
HandleNames == { NameA, <<" ", "A">>, NameB, NameDot, NameUnd, <<" ">> }

\* getVoterModel(name), called by any handler: the body has no await, so a
\* call runs from start to end before another one starts.  rq is the list of
\* the names asked so far and rres what the last call gave.
HandleFor(name) ==
  /\ Len(rq) <= MaxCalls
  /\ LET got == getVoterModel(name, readyState, modelCache, dbModels)
     IN  /\ rres' = IF got.threw
                      THEN Failure(500, "threw", name, modelCache, dbModels)
                      ELSE [status |-> 200, error |-> "", candidate |-> name,
                            model |-> got.model, databaseId |-> trim(name),
                            modelCache |-> got.modelCache, dbModels |-> got.dbModels]
         /\ modelCache' = got.modelCache
         /\ dbModels' = got.dbModels
  /\ rq' = Append(rq, name)
  /\ UNCHANGED <<env, readyState, rpc>>
  /\ UNCHANGED svars
  /\ UNCHANGED xvars
  /\ UNCHANGED cvars
  /\ UNCHANGED avars

InitHandles ==
  /\ env = [VOTER_COLLECTION |-> <<>>, DEFAULT_VOTER_COLLECTION |-> <<>>]
  /\ readyState \in {0, 1}
  /\ modelCache = {}
  /\ dbModels = {}
  /\ rq = <<>>
  /\ rres = NoResult
  /\ rpc = "done"
  /\ colls = [c \in CollNames |-> [exists |-> FALSE, docs |-> EmptyDocs]]
  /\ InitIdle

NextHandles == \E name \in HandleNames : HandleFor(name)

SpecHandles == InitHandles /\ [][NextHandles]_vars

\* ------------------------------- properties of getVoterModel's cache --

Given == rq # <<>> /\ rres.status = 200

\* C34: a handle given for name P is bound to collection P, and the handles
\* cached under two keys are two handles, each bound to the collection of
\* its key
C34_HandleBound ==
  /\ Given => rres.model.collection = trim(rres.candidate)
  /\ \A c \in modelCache : c.model.collection = c.key[2]
  /\ \A c, d \in modelCache : c.key # d.key => c.model # d.model

\* C40: calls of getVoterModel in any order: a key has at most one cached
\* handle and a model name one registration, a call gives the handle cached
\* under its key, a call fails only for an empty name or a connection that
\* is not ready, and an entry of the cache is never removed or replaced.
C40_MaterializeOnce ==
  /\ [](/\ \A c, d \in modelCache : c.key = d.key => c = d
        /\ \A m, n \in dbModels : m.name = n.name => m = n
        /\ Given => [key |-> CacheKey(trim(rres.candidate)), model |-> rres.model]
                      \in modelCache
        /\ (rq # <<>> /\ readyState = 1 /\ trim(rq[Len(rq)]) # <<>>) => rres.status = 200)
  /\ [][modelCache \subseteq modelCache' /\ dbModels \subseteq dbModels']_vars

\* the handle of A was asked three times, under two spellings, with another
\* key in between: one entry for A, and the last call gave it
C40_Witness ==
  /\ rq = << NameA, NameB, <<" ", "A">> >>
  /\ Given
  /\ rres.model = [name |-> makeModelName(NameA), collection |-> NameA]
  /\ Cardinality(modelCache) = 2
  /\ Cardinality(dbModels) = 2

\* ------------------------------ bulk-upsert on a collection not there --

\* as Init, with collection B absent: never cloned, or dropped
InitAbsent ==
  /\ env = [VOTER_COLLECTION |-> <<>>, DEFAULT_VOTER_COLLECTION |-> <<>>]
  /\ readyState = 1
  /\ modelCache = {}
  /\ dbModels = {}
  /\ rq = NoRequest
  /\ rres = NoResult
  /\ rpc = "done"
  /\ colls = [c \in CollNames |->
                IF c = NameA THEN [exists |-> TRUE, docs |-> MasterDocs(1)]
                ELSE [exists |-> FALSE, docs |-> EmptyDocs]]
  /\ InitIdle

SpecAbsent == InitAbsent /\ [][Next]_vars

\* C33: no step of a bulk-upsert call, the resolve at its start included,
\* makes a collection exist or makes one go
C33_ExistenceKept ==
  [][\A c \in CollNames : colls'[c].exists = colls[c].exists]_vars

\* ------------------- bulk-upsert on two collections with similar names --

MixedNames == { NameDot, NameUnd }

MixedRequests ==
  { MkReq([role |-> "admin", allowedDatabaseIds |-> ArrayOf(<<>>)],
          [NoSelection EXCEPT ![5] = Str(c)]) : c \in MixedNames }

MixedScripts ==
  { <<a>> : a \in { Edit, Add } } \cup { <<a, b>> : a \in { Edit, Add }, b \in { Edit, Add } }

\* the two collections hold the records of one master
InitMixed ==
  /\ env = [VOTER_COLLECTION |-> <<>>, DEFAULT_VOTER_COLLECTION |-> <<>>]
  /\ readyState = 1
  /\ modelCache = {}
  /\ dbModels = {}
  /\ rq = NoRequest
  /\ rres = NoResult
  /\ rpc = "done"
  /\ colls = [c \in MixedNames |-> [exists |-> TRUE, docs |-> MasterDocs(1)]]
  /\ InitHandlers
  /\ script \in MixedScripts

\* one call per change of the script, one after the other, each on either
\* collection
NextMixed ==
  \/ \E p \in Procs, req \in MixedRequests :
       Quiet /\ script # <<>> /\ BulkUpsertBegin(p, req, 1) /\ UNCHANGED script
  \/ \E p \in Procs :
       script # <<>> /\ FindById(p, Head(script)) /\ script' = Tail(script)
  \/ \E p \in Procs : Create(p)
  \/ \E p \in Procs : Merge(p)
  \/ \E p \in Procs : Respond(p)
  \/ \E p \in Procs : Finish(p)
  \/ Tick

SpecMixed == InitMixed /\ [][NextMixed]_vars

\* C35: a step of a bulk-upsert call changes records of the collection the
\* call was resolved to (the databaseId it answers with) and of no other
C35_OnlyResolved ==
  [][\A c \in MixedNames :
       colls'[c] # colls[c] => \E p \in Procs : cur[p].databaseId = c]_vars

\* ------------------------------------ a bulk-upsert call sent again --

RetryChanges ==
  { Change("id1", "upsert", Payload("m2", Unset), At(1)),
    Change("id1", "upsert", Payload("m3", "n1"), At(MaxTime)),
    Change("id2", "upsert", Payload("m2", Unset), At(1)),
    Change("v1", "upsert", Payload("m2", Unset), At(1)),
    Change("", "upsert", Payload("m2", Unset), At(1)) }

\* script.batch is the array of both calls; script.first keeps the records
\* as they were when the second call started
InitTwice ==
  /\ env = [VOTER_COLLECTION |-> <<>>, DEFAULT_VOTER_COLLECTION |-> <<>>]
  /\ readyState = 1
  /\ modelCache = {}
  /\ dbModels = {}
  /\ rq = NoRequest
  /\ rres = NoResult
  /\ rpc = "done"
  /\ colls = [c \in CollNames |->
                IF c = NameA THEN [exists |-> TRUE, docs |-> StartDocs]
                ELSE [exists |-> TRUE, docs |-> EmptyDocs]]
  /\ now = 1
  /\ pc = [p \in Hands |-> "idle"]
  /\ cur = [p \in Hands |-> IdleCur]
  /\ resp = [p \in Hands |-> NoResp]
  /\ ex = IdleEx
  /\ pull = NoPull
  /\ cl = IdleClone
  /\ InitAdmin
  /\ \E b \in BatchesOf(RetryChanges) : script = [batch |-> b, first |-> EmptyDocs]

\* the client sends the array, and sends it again once the first call has
\* answered; nobody else writes
NextTwice ==
  \/ /\ pc[2] = "idle"
     /\ BulkUpsertBegin(1, BothRequest, Len(script.batch)) /\ UNCHANGED script
  \/ /\ pc[1] = "sent"
     /\ BulkUpsertBegin(2, BothRequest, Len(script.batch))
     /\ script' = [script EXCEPT !.first = Docs(NameA)]
  \/ \E p \in Hands :
       /\ pc[p] = "next" /\ cur[p].i <= cur[p].n
       /\ BadChange(p, script.batch[cur[p].i]) /\ UNCHANGED script
  \/ \E p \in Hands :
       /\ pc[p] = "next" /\ cur[p].i <= cur[p].n
       /\ FindById(p, script.batch[cur[p].i]) /\ UNCHANGED script
  \/ \E p \in Hands : Create(p)
  \/ \E p \in Hands : Merge(p)
  \/ \E p \in Hands : Respond(p)
  \/ Tick

SpecTwice == InitTwice /\ [][NextTwice]_vars

Fields(d) == [present |-> d.present, mobile |-> d.mobile, name |-> d.name]

\* C37: the same array pushed a second time after the first call answered,
\* with no other writer: the second call lists the same ids in successIds and
\* every record has the field values it had after the first call
C37_RetrySafe ==
  pc[2] = "sent" =>
    /\ resp[2].successIds = resp[1].successIds
    /\ \A id \in ObjectIds : Fields(Docs(NameA)[id]) = Fields(script.first[id])

\* ------------------------------------------- routes/auth.js: POST /login --
\* The login of one candidate account, with the right password.  cur[p] holds
\* the locals of login handler p (the device presented and the user document
\* it loaded), resp[p] its answer, adm the reset-device handler.

MinDeviceLen == 6

DevA == << "d", "e", "v", "-", "a", "1" >>
DevB == << "d", "e", "v", "-", "b", "2" >>
DevShort == << "d", "e", "v" >>
Devices == { DevA, DevB, DevShort, <<>> }

Cand == << "i", "1" >>

\* a candidate as POST /users stores it: deviceIdBound null
CandDoc ==
  [present |-> TRUE, username |-> << "c" >>, role |-> "candidate",
   allowedDatabaseIds |-> <<>>, parentUserId |-> <<>>, deviceIdBound |-> <<>>]

LoginAnswer(status, deviceId, bound) ==
  [status |-> status, deviceId |-> deviceId, deviceIdBound |-> bound]

\* auth.js:26-50: read the device id, await User.findOne, await bcrypt.compare
LoginFind(p, deviceId) ==
  /\ pc[p] = "idle"
  /\ users[Cand].present
  /\ cur' = [cur EXCEPT ![p] = [deviceId |-> deviceId, user |-> users[Cand]]]
  /\ pc' = [pc EXCEPT ![p] = "found"]
  /\ UNCHANGED <<env, readyState, modelCache, dbModels, colls, now, resp, script>>
  /\ UNCHANGED rvars
  /\ UNCHANGED xvars
  /\ UNCHANGED cvars
  /\ UNCHANGED <<rt, dr, users, adm>>

\* auth.js:66-92: the device check on the loaded document; the first login
\* sets deviceIdBound and awaits user.save(), which writes the modified paths
LoginCheck(p) ==
  /\ pc[p] = "found"
  /\ LET d == cur[p].deviceId
         u == cur[p].user
     IN  IF Len(d) < MinDeviceLen
           THEN /\ resp' = [resp EXCEPT ![p] = LoginAnswer(400, d, u.deviceIdBound)]
                /\ pc' = [pc EXCEPT ![p] = "sent"]
                /\ UNCHANGED <<users, cur>>
         ELSE IF u.deviceIdBound = <<>>
           THEN /\ users' = [users EXCEPT ![Cand].deviceIdBound = d]
                /\ cur' = [cur EXCEPT ![p].user.deviceIdBound = d]
                /\ pc' = [pc EXCEPT ![p] = "saved"]
                /\ UNCHANGED resp
         ELSE IF u.deviceIdBound # d
           THEN /\ resp' = [resp EXCEPT ![p] = LoginAnswer(423, d, u.deviceIdBound)]
                /\ pc' = [pc EXCEPT ![p] = "sent"]
                /\ UNCHANGED <<users, cur>>
         ELSE /\ pc' = [pc EXCEPT ![p] = "saved"]
              /\ UNCHANGED <<users, cur, resp>>
  /\ UNCHANGED <<env, readyState, modelCache, dbModels, colls, now, script>>
  /\ UNCHANGED rvars
  /\ UNCHANGED xvars
  /\ UNCHANGED cvars
  /\ UNCHANGED <<rt, dr, adm>>

\* auth.js:95-140: after await listVoterDatabases(): the token and the answer
LoginRespond(p) ==
  /\ pc[p] = "saved"
  /\ resp' = [resp EXCEPT ![p] =
        LoginAnswer(200, cur[p].deviceId, cur[p].user.deviceIdBound)]
  /\ pc' = [pc EXCEPT ![p] = "sent"]
  /\ UNCHANGED <<env, readyState, modelCache, dbModels, colls, now, cur, script>>
  /\ UNCHANGED rvars
  /\ UNCHANGED xvars
  /\ UNCHANGED cvars
  /\ UNCHANGED avars

\* the answer is with the client; the client may log in again
LoginFinish(p) ==
  /\ pc[p] = "sent"
  /\ pc' = [pc EXCEPT ![p] = "idle"]
  /\ resp' = [resp EXCEPT ![p] = LoginAnswer(0, <<>>, <<>>)]
  /\ cur' = [cur EXCEPT ![p] = [deviceId |-> <<>>, user |-> CandDoc]]
  /\ UNCHANGED <<env, readyState, modelCache, dbModels, colls, now, script>>
  /\ UNCHANGED rvars
  /\ UNCHANGED xvars
  /\ UNCHANGED cvars
  /\ UNCHANGED avars

\* admin.js:609-617: PATCH /users/:id/reset-device: await User.findById
ResetFind ==
  /\ adm.pc = "idle"
  /\ adm.calls < MaxCalls
  /\ users[Cand].present
  /\ adm' = [adm EXCEPT !.pc = "found", !.calls = @ + 1]
  /\ UNCHANGED <<env, readyState, modelCache, dbModels>>
  /\ UNCHANGED rvars
  /\ UNCHANGED svars
  /\ UNCHANGED xvars
  /\ UNCHANGED cvars
  /\ UNCHANGED <<rt, dr, users>>

\* admin.js:619-640: deviceIdBound = null, await user.save(), the answer
ResetSave ==
  /\ adm.pc = "found"
  /\ users' = [users EXCEPT ![Cand].deviceIdBound = <<>>]
  /\ adm' = [adm EXCEPT !.pc = "idle"]
  /\ UNCHANGED <<env, readyState, modelCache, dbModels>>
  /\ UNCHANGED rvars
  /\ UNCHANGED svars
  /\ UNCHANGED xvars
  /\ UNCHANGED cvars
  /\ UNCHANGED <<rt, dr>>

InitLogin ==
  /\ env = [VOTER_COLLECTION |-> <<>>, DEFAULT_VOTER_COLLECTION |-> <<>>]
  /\ readyState = 1
  /\ modelCache = {}
  /\ dbModels = {}
  /\ rq = NoRequest
  /\ rres = NoResult
  /\ rpc = "done"
  /\ colls = [c \in CollNames |-> [exists |-> TRUE, docs |-> EmptyDocs]]
  /\ now = 1
  /\ pc = [p \in Hands |-> "idle"]
  /\ cur = [p \in Hands |-> [deviceId |-> <<>>, user |-> CandDoc]]
  /\ resp = [p \in Hands |-> LoginAnswer(0, <<>>, <<>>)]
  /\ script = <<>>
  /\ ex = IdleEx
  /\ pull = NoPull
  /\ cl = IdleClone
  /\ rt = IdleClone
  /\ dr = IdleDrop
  /\ users = [id \in UserIds |-> IF id = Cand THEN CandDoc ELSE NoUserDoc]
  /\ adm = [pc |-> "idle", calls |-> 0]

NextLogin ==
  \/ \E p \in Hands, d \in Devices : LoginFind(p, d)
  \/ \E p \in Hands : LoginCheck(p)
  \/ \E p \in Hands : LoginRespond(p)
  \/ \E p \in Hands : LoginFinish(p)
  \/ ResetFind
  \/ ResetSave

SpecLogin == InitLogin /\ [][NextLogin]_vars

\* C39: the first login that succeeds binds the account to its device; with
\* no reset made, the logins that are answered 200 all present one device
\* (so of two first logins from two devices at most one succeeds), and a
\* binding, once set, changes only in the save of reset-device
C39_DeviceBinding ==
  /\ [](\A p \in Hands :
          (pc[p] = "sent" /\ resp[p].status = 200) =>
             resp[p].deviceIdBound = resp[p].deviceId)
  /\ [](\A p, q \in Hands :
          (adm.calls = 0 /\ pc[p] = "sent" /\ pc[q] = "sent"
             /\ resp[p].status = 200 /\ resp[q].status = 200) =>
            resp[p].deviceId = resp[q].deviceId)
  /\ [][(users[Cand].deviceIdBound # <<>>
           /\ users'[Cand].deviceIdBound # users[Cand].deviceIdBound) =>
          (adm.pc = "found" /\ adm'.pc = "idle")]_vars

====
